---- MODULE Spec2Model ----
(***************************************************************************)
(* A model of the search-and-match engine of backend/cmd/api/main.go: the  *)
(* single-flight worker (runWorker), its triggers (scheduler and           *)
(* triggerWorkerHandler), the candidate filter, the deduplicating match    *)
(* store and the WebSocket fan-out.                                        *)
(*                                                                         *)
(* Strings are sequences of one-character strings, so that the text        *)
(* functions of the program are computed and not assumed.                  *)
(***************************************************************************)
EXTENDS Integers, Sequences, FiniteSets, TLC

(***************************************************************************)
(* Text helpers (package strings / regexp as the program uses them)        *)
(***************************************************************************)

UpperChars == <<"A","B","C","D","E","F","G","H","I","J","K","L","M",
                "N","O","P","Q","R","S","T","U","V","W","X","Y","Z">>

LowerChars == <<"a","b","c","d","e","f","g","h","i","j","k","l","m",
                "n","o","p","q","r","s","t","u","v","w","x","y","z">>

DigitChars == {"0","1","2","3","4","5","6","7","8","9"}

SetOf(seq) == {seq[i] : i \in 1..Len(seq)}

IndexIn(seq, c) == CHOOSE i \in 1..Len(seq) : seq[i] = c

LowerChar(c) == IF c \in SetOf(UpperChars) THEN LowerChars[IndexIn(UpperChars, c)] ELSE c

UpperChar(c) == IF c \in SetOf(LowerChars) THEN UpperChars[IndexIn(LowerChars, c)] ELSE c

\* strings.ToLower
ToLower(s) == [i \in 1..Len(s) |-> LowerChar(s[i])]

\* strings.ToUpper
ToUpper(s) == [i \in 1..Len(s) |-> UpperChar(s[i])]

\* unicode.IsSpace / the regexp class \s, over the characters the model uses
IsSpace(c) == c = " "

IsDigit(c) == c \in DigitChars

\* the regexp class [a-z0-9]
IsLowerAlnum(c) == c \in SetOf(LowerChars) \/ IsDigit(c)

\* s[from..] starts with sub
HasPrefixAt(s, sub, from) ==
    /\ from + Len(sub) - 1 <= Len(s)
    /\ \A k \in 1..Len(sub) : s[from + k - 1] = sub[k]

\* strings.HasPrefix
HasPrefix(s, sub) == HasPrefixAt(s, sub, 1)

\* strings.Contains
Contains(s, sub) == \E i \in 1..(Len(s) + 1) : HasPrefixAt(s, sub, i)

RECURSIVE TrimLeft(_)
TrimLeft(s) == IF s # <<>> /\ IsSpace(Head(s)) THEN TrimLeft(Tail(s)) ELSE s

RECURSIVE TrimRight(_)
TrimRight(s) ==
    IF s # <<>> /\ IsSpace(s[Len(s)]) THEN TrimRight(SubSeq(s, 1, Len(s) - 1)) ELSE s

\* strings.TrimSpace
TrimSpace(s) == TrimRight(TrimLeft(s))

\* strings.FieldsFunc: the maximal runs of characters that are not separators
\* (seps: the separator characters)
RECURSIVE SplitRuns(_, _, _, _)
SplitRuns(s, seps, cur, acc) ==
    IF s = <<>>
    THEN IF cur = <<>> THEN acc ELSE Append(acc, cur)
    ELSE IF Head(s) \in seps
         THEN SplitRuns(Tail(s), seps, <<>>, IF cur = <<>> THEN acc ELSE Append(acc, cur))
         ELSE SplitRuns(Tail(s), seps, Append(cur, Head(s)), acc)

FieldsFunc(s, seps) == SplitRuns(s, seps, <<>>, <<>>)

\* strings.Fields
Fields(s) == FieldsFunc(s, {c \in SetOf(s) : IsSpace(c)})

\* strings.Join
RECURSIVE Join(_, _)
Join(parts, sep) ==
    IF parts = <<>> THEN <<>>
    ELSE IF Len(parts) = 1 THEN parts[1]
    ELSE parts[1] \o sep \o Join(Tail(parts), sep)

\* strings.ReplaceAll for a one-character old and new
ReplaceChar(s, old, new) == [i \in 1..Len(s) |-> IF s[i] = old THEN new ELSE s[i]]

\* regexp ReplaceAllString(s, " ") for a pattern class+ : every maximal run of
\* characters of the class becomes one space
RECURSIVE ReplaceRuns(_, _, _)
ReplaceRuns(s, class, inRun) ==
    IF s = <<>> THEN <<>>
    ELSE IF Head(s) \in class
         THEN (IF inRun THEN <<>> ELSE <<" ">>) \o ReplaceRuns(Tail(s), class, TRUE)
         ELSE <<Head(s)>> \o ReplaceRuns(Tail(s), class, FALSE)

(***************************************************************************)
(* Matching and quality rules                                              *)
(***************************************************************************)

\* the pattern [^a-z0-9\s]
IsNonAlnum(c) == ~IsLowerAlnum(c) /\ ~IsSpace(c)

\* normalize: lowercase, "_" and "-" to spaces, runs of other characters to a
\* space, trim, collapse whitespace
normalize(s) ==
    LET s1 == ToLower(s)
        s2 == ReplaceChar(s1, "_", " ")
        s3 == ReplaceChar(s2, "-", " ")
        s4 == ReplaceRuns(s3, {c \in SetOf(s3) : IsNonAlnum(c)}, FALSE)
        s5 == TrimSpace(s4)
    IN  ReplaceRuns(s5, {c \in SetOf(s5) : IsSpace(c)}, FALSE)

\* the regexp class \w
IsWordChar(c) == c \in SetOf(LowerChars) \/ c \in SetOf(UpperChars) \/ IsDigit(c) \/ c = "_"

\* (19\d{2}|20\d{2}) matches at position i
YearAt(s, i) ==
    /\ i + 3 <= Len(s)
    /\ \/ s[i] = "1" /\ s[i + 1] = "9"
       \/ s[i] = "2" /\ s[i + 1] = "0"
    /\ IsDigit(s[i + 2])
    /\ IsDigit(s[i + 3])

\* \b holds between positions i-1 and i
WordBoundaryAt(s, i) ==
    LET before == i > 1 /\ i - 1 <= Len(s) /\ IsWordChar(s[i - 1])
        after  == i >= 1 /\ i <= Len(s) /\ IsWordChar(s[i])
    IN  before # after

\* extractYear: the first match of \b(19\d{2}|20\d{2})\b, or ""
extractYear(text) ==
    LET hits == {i \in 1..Len(text) :
                    YearAt(text, i) /\ WordBoundaryAt(text, i) /\ WordBoundaryAt(text, i + 4)}
    IN  IF hits = {} THEN <<>>
        ELSE LET i == CHOOSE h \in hits : \A g \in hits : h <= g
             IN  SubSeq(text, i, i + 3)

\* the number of whitespace characters of s starting at position i
RECURSIVE SpacesAt(_, _)
SpacesAt(s, i) == IF i <= Len(s) /\ IsSpace(s[i]) THEN 1 + SpacesAt(s, i + 1) ELSE 0

\* ReplaceAllString of \s*(19\d{2}|20\d{2})\s* by " ", scanning from position i
RECURSIVE ReplaceYears(_, _)
ReplaceYears(s, i) ==
    IF i > Len(s) THEN <<>>
    ELSE LET j == i + SpacesAt(s, i)
         IN  IF YearAt(s, j)
             THEN <<" ">> \o ReplaceYears(s, j + 4 + SpacesAt(s, j + 4))
             ELSE <<s[i]>> \o ReplaceYears(s, i + 1)

\* removeYear
removeYear(text) == TrimSpace(ReplaceYears(text, 1))

\* fuzzy.Match(source, target): the characters of source occur in target in order
RECURSIVE IsSubsequence(_, _)
IsSubsequence(source, target) ==
    IF source = <<>> THEN TRUE
    ELSE IF target = <<>> THEN FALSE
    ELSE IF Head(source) = Head(target)
         THEN IsSubsequence(Tail(source), Tail(target))
         ELSE IsSubsequence(source, Tail(target))

FuzzyMatch(source, target) ==
    IF Len(source) > Len(target) THEN FALSE
    ELSE IF Len(source) = Len(target) THEN source = target
    ELSE IsSubsequence(source, target)

\* the float64 sum 0.70*overlap + 0.30*contains is the double next below the
\* one nearest to the exact sum (line 596; queries of up to four tokens)
RoundsDown(hit, den, contains) ==
    << hit, den, contains >> \in { << 1, 2, 1 >>, << 1, 3, 0 >>, << 2, 3, 0 >>,
                                  << 2, 3, 1 >>, << 2, 4, 1 >>, << 3, 4, 0 >> }

\* line 596: 0.70*overlap + 0.30*contains for overlap = hit / den, as the
\* fraction num / (100 * den); down says that the float64 computed is just
\* below that fraction
Blend(hit, den, contains) ==
    [num |-> 70 * hit + 30 * contains * den, den |-> den,
     down |-> RoundsDown(hit, den, contains)]

\* fuzzyScore; den is the number of query tokens
ScoreParts(query, candidate) ==
    LET q   == normalize(query)
        c   == normalize(candidate)
        qt  == Fields(q)
        ct  == SetOf(Fields(c))
    IN  IF q = <<>> \/ c = <<>> THEN [num |-> 0, den |-> 1, down |-> FALSE]
        ELSE IF q = c THEN [num |-> 100, den |-> 1, down |-> FALSE]
        ELSE Blend(Cardinality({i \in 1..Len(qt) : qt[i] \in ct}), Len(qt),
                   IF FuzzyMatch(q, c) \/ Contains(c, q) THEN 1 ELSE 0)

\* a float64: NaN, or the double nearest to num / den
Float(num, den) == [nan |-> FALSE, num |-> num, den |-> den]

NaN == [nan |-> TRUE, num |-> 0, den |-> 1]

\* sc >= threshold in float64: false for a NaN threshold; a score just below
\* its fraction is smaller than a threshold at that fraction
AtLeast(sc, threshold) ==
    /\ ~threshold.nan
    /\ IF sc.down
       THEN sc.num * threshold.den > threshold.num * 100 * sc.den
       ELSE sc.num * threshold.den >= threshold.num * 100 * sc.den

\* score >= threshold (line 441)
ScoreAtLeast(query, candidate, threshold) ==
    AtLeast(ScoreParts(query, candidate), threshold)

IsSubSep(c) == c = "." \/ c = "-" \/ c = "_"

BadTokens == { <<"T","S">>, <<"C","A","M">>, <<"T","E","L","E","C","I","N","E">>,
               <<"H","D","C","A","M">>, <<"C","A","M","R","I","P">>, <<"H","D","T","S">> }

\* disqualifiedQuality
disqualifiedQuality(title) ==
    \/ Contains(ToLower(title), <<"s","o","u","n","d","t","r","a","c","k">>)
    \/ Contains(title, <<"T","e","l","e","s","y","n","c">>)
    \/ \E t \in SetOf(Fields(title)) :
          \E st \in SetOf(FieldsFunc(t, {c \in SetOf(t) : IsSubSep(c)})) : ToUpper(st) \in BadTokens

\* the contiguous-phrase pre-filter of lines 344-367: TRUE iff the candidate passes
ForMatching(n) ==
    LET a == ReplaceChar(ReplaceChar(ReplaceChar(n, ".", " "), "-", " "), "_", " ")
    IN  Join(Fields(a), <<" ">>)

PreFilterPasses(itemText, title) ==
    Contains(ForMatching(normalize(title)), ForMatching(normalize(removeYear(itemText))))

\* findEntityByType: the first entity whose upper-cased type contains entityType,
\* or the empty sequence for nil
findEntityByType(entities, entityType) ==
    LET hits == {i \in 1..Len(entities) : Contains(ToUpper(entities[i].Type), entityType)}
    IN  IF hits = {} THEN <<>>
        ELSE <<entities[CHOOSE h \in hits : \A g \in hits : h <= g]>>

(***************************************************************************)
(* Bounds of the model                                                     *)
(***************************************************************************)

\* rows of the items table (item ids 1..MaxItems)
MaxItems == 2

\* rows of the urls table (site ids 1..MaxSites)
MaxSites == 2

\* candidates one site search returns
MaxCands == 5

\* goroutines started by POST /api/trigger-worker that exist at one time
MaxManual == 1

\* WebSocket connections over the life of the process
MaxConns == 2

\* failures the environment injects in one behaviour (errors of the database,
\* the browser, the LLM, the SMS gateway; a panic)
MaxFaults == 1

\* mutating API requests in one behaviour
MaxApiOps == 1

\* POST /api/items requests in one behaviour
MaxPosts == 2

(***************************************************************************)
(* The world outside the program: watchlist texts, titles, sites           *)
(***************************************************************************)

Dune2021 == <<"D","u","n","e"," ","2","0","2","1">>

Heat == <<"H","e","a","t">>

ItemTexts == {Dune2021, Heat}

TitleDune == <<"D","u","n","e",".","2","0","2","1",".","1","0","8","0","p">>

TitleDuneTS == <<"D","u","n","e",".","2","0","2","1",".","T","S",".","X","v","i","D">>

TitleHeat == <<"H","e","a","t",".","1","9","9","5",".","B","l","u","R","a","y">>

Titles == {TitleDune, TitleDuneTS, TitleHeat}

ItemIds == 1..MaxItems

SiteIds == 1..MaxSites

CandUrls == 1..MaxCands

\* text of the item the initial items table holds under id i
InitialText(i) == IF i % 2 = 1 THEN Dune2021 ELSE Heat

\* what a search of site s lists (SearchResult{Title, URL}); the URL of a
\* candidate is its position, distinct within one result list as Search's
\* seen-map guarantees
SiteListing(s) ==
    [j \in 1..MaxCands |->
        [Title |-> IF s % 2 = 1 THEN TitleDune
                   ELSE IF j = 1 THEN TitleDuneTS
                   ELSE IF j = 2 THEN TitleHeat
                   ELSE TitleDune,
         URL   |-> j]]

TypeFilmTitle == <<"F","I","L","M"," ","T","I","T","L","E">>

TypeYear == <<"Y","E","A","R">>

\* what the LLM answers for a title when it answers (Entity{Text, Type})
LLMEntities(title) ==
    IF title = TitleHeat
    THEN << [Text |-> Heat, Type |-> TypeFilmTitle],
            [Text |-> <<"1","9","9","5">>, Type |-> TypeYear] >>
    ELSE << [Text |-> <<"D","u","n","e">>, Type |-> TypeFilmTitle],
            [Text |-> <<"2","0","2","1">>, Type |-> TypeYear] >>

\* values of a Twilio environment variable: set, blank and empty
EnvSet == <<"+", "1">>
EnvBlank == <<" ">>
EnvEmpty == <<>>

\* the decimal digits of s as a number
RECURSIVE DigitsValue(_)
DigitsValue(s) ==
    IF s = <<>> THEN 0
    ELSE 10 * DigitsValue(SubSeq(s, 1, Len(s) - 1))
         + (CHOOSE d \in 0..9 : ToString(d) = s[Len(s)])

RECURSIVE Pow10(_)
Pow10(n) == IF n = 0 THEN 1 ELSE 10 * Pow10(n - 1)

\* a decimal number without exponent, its sign apart
ParseDecimal(negative, int, frac) ==
    IF /\ int \o frac # <<>>
       /\ \A i \in 1..Len(int) : IsDigit(int[i])
       /\ \A i \in 1..Len(frac) : IsDigit(frac[i])
    THEN [err |-> FALSE, inf |-> 0,
          f |-> Float((IF negative THEN -1 ELSE 1) * DigitsValue(int \o frac),
                      Pow10(Len(frac)))]
    ELSE [err |-> TRUE, inf |-> 0, f |-> Float(0, 1)]

\* the text after the sign: inf and infinity in any case, or a decimal number
\* with the point at position dot
ParseUnsigned(negative, body, dot) ==
    IF ToLower(body) \in {<<"i","n","f">>, <<"i","n","f","i","n","i","t","y">>}
    THEN [err |-> FALSE, inf |-> IF negative THEN -1 ELSE 1, f |-> Float(0, 1)]
    ELSE ParseDecimal(negative, SubSeq(body, 1, dot - 1), SubSeq(body, dot + 1, Len(body)))

\* the position of the decimal point, Len(body) + 1 without one
PointOf(body) == IF "." \in SetOf(body) THEN IndexIn(body, ".") ELSE Len(body) + 1

ParseBody(negative, body) == ParseUnsigned(negative, body, PointOf(body))

\* strconv.ParseFloat(s, 64) for the settings of the model: nan, inf and
\* infinity in any case, and decimal numbers without exponent; inf is -1 or 1
\* for the infinities
ParseFloat(s) ==
    IF ToLower(s) = <<"n","a","n">>
    THEN [err |-> FALSE, inf |-> 0, f |-> NaN]
    ELSE IF s # <<>> /\ Head(s) \in {"+", "-"}
    THEN ParseBody(Head(s) = "-", Tail(s))
    ELSE ParseBody(FALSE, s)

\* lines 216-225: the default for an error, else the number clamped to [0,1]
Clamped(p, def) ==
    IF p.err THEN def
    ELSE IF p.inf < 0 \/ (~p.f.nan /\ p.inf = 0 /\ p.f.num < 0) THEN Float(0, 1)
    ELSE IF p.inf > 0 \/ (~p.f.nan /\ p.f.num > p.f.den) THEN Float(1, 1)
    ELSE p.f

\* the trimmed value of the variable, "" if unset (lines 211-214)
FloatOr(v, def) == IF v = <<>> THEN def ELSE Clamped(ParseFloat(v), def)

\* getenvFloat (lines 210-226)
getenvFloat(v, def) == FloatOr(TrimSpace(v), def)

\* line 250: the default of FUZZY_THRESHOLD
DefaultThreshold == Float(78, 100)

\* TWILIO_ACCOUNT_SID, TWILIO_AUTH_TOKEN, TWILIO_FROM_NUMBER, ALERT_TO_NUMBER
Twilio(sid, tok, from, to) == [sid |-> sid, tok |-> tok, from |-> from, to |-> to]

\* the environment variables the worker reads
Configs ==
    { [disablePW |-> FALSE, useEntityMatching |-> TRUE, threshold |-> getenvFloat(EnvEmpty, DefaultThreshold),
       twilio |-> Twilio(EnvSet, EnvSet, EnvSet, EnvSet)],
      [disablePW |-> FALSE, useEntityMatching |-> FALSE, threshold |-> getenvFloat(EnvEmpty, DefaultThreshold),
       twilio |-> Twilio(EnvSet, EnvSet, EnvSet, EnvBlank)],
      [disablePW |-> FALSE, useEntityMatching |-> FALSE, threshold |-> getenvFloat(EnvEmpty, DefaultThreshold),
       twilio |-> Twilio(EnvSet, EnvEmpty, EnvSet, EnvSet)],
      [disablePW |-> TRUE,  useEntityMatching |-> TRUE, threshold |-> getenvFloat(EnvEmpty, DefaultThreshold),
       twilio |-> Twilio(EnvSet, EnvSet, EnvSet, EnvSet)] }

\* an SMS as soon as one of the four settings is there
SmsConfiguredByAny(c) ==
    \/ TrimSpace(c.twilio.sid) # <<>>
    \/ TrimSpace(c.twilio.tok) # <<>>
    \/ TrimSpace(c.twilio.from) # <<>>
    \/ TrimSpace(c.twilio.to) # <<>>

\* lines 911-917: maybeSendTwilioSMS returns nil without a request if one of
\* the four trimmed settings is ""
SmsConfigured(c) ==
    ~ \/ TrimSpace(c.twilio.sid) = <<>>
      \/ TrimSpace(c.twilio.tok) = <<>>
      \/ TrimSpace(c.twilio.from) = <<>>
      \/ TrimSpace(c.twilio.to) = <<>>

(***************************************************************************)
(* The candidate filter of runWorker (lines 324-448) as a function of the  *)
(* item text, the candidate title, the configuration and the LLM's reply.  *)
(* steps is the set of operations the worker performs for the candidate.   *)
(***************************************************************************)

\* an LLM reply: extractEntities returned an error, or the entities
LLMError == [err |-> TRUE, entities |-> <<>>, null |-> TRUE]

LLMReply(title) == [err |-> FALSE, entities |-> LLMEntities(title), null |-> FALSE]

\* the ways a call of the LLM endpoint can fail to give entities
LLMFailures == {"unreachable", "status", "empty", "blank", "invalid"}

\* well-formed answers other than the expected one: no "entities" field, an
\* empty array, no film title, another year, no year, another film, and
\* the right film in another spelling of text and type
LLMOddities ==
    {"noEntities", "emptyList", "noFilmTitle", "wrongYear", "noYear",
     "wrongTitle", "looseTitle"}

LLMKinds == {"entities"} \cup LLMFailures \cup LLMOddities

\* the entities in the answer of the given kind for a title
EntitiesOf(title, kind) ==
    LET e == LLMEntities(title)
    IN  CASE kind = "noFilmTitle" ->
               << [Text |-> <<"1","0","8","0","p">>,
                   Type |-> <<"R","E","S","O","L","U","T","I","O","N">>], e[2] >>
          [] kind = "wrongYear" ->
               << e[1], [Text |-> <<"1","9","8","4">>, Type |-> TypeYear] >>
          [] kind = "noYear" -> << e[1] >>
          [] kind = "wrongTitle" ->
               << [Text |-> <<"A","l","i","e","n">>, Type |-> TypeFilmTitle], e[2] >>
          [] kind = "looseTitle" ->
               << [Text |-> <<" ">> \o ToUpper(e[1].Text) \o <<" ">>,
                   Type |-> <<"F","i","l","m"," ","T","i","t","l","e">>], e[2] >>
          [] kind = "entities" -> e
          [] OTHER -> <<>>

\* what the endpoint sends: whether it answers and with which status, and
\* the "response" text: empty, blank, not JSON, a JSON array of entities, or
\* a JSON object with or without an "entities" field
RawReply(title, kind) ==
    [http     |-> IF kind = "unreachable" THEN "none"
                  ELSE IF kind = "status" THEN "500" ELSE "200",
     body     |-> IF kind \in {"empty", "blank", "invalid"} THEN kind
                  ELSE IF kind = "emptyList" THEN "array"
                  ELSE "object",
     field    |-> kind # "noEntities",
     entities |-> EntitiesOf(title, kind)]

\* extractEntities, lines 817-855: an error for a failed call, a status
\* other than 200, an empty or blank response and a response that parses
\* neither as an array of entities nor as an object; a nil slice (null) for
\* an object without "entities"
extractEntities(raw) ==
    IF raw.http = "none" \/ raw.http # "200" THEN LLMError
    ELSE IF raw.body \in {"empty", "blank"} THEN LLMError
    ELSE IF raw.body = "array"
    THEN [err |-> FALSE, entities |-> raw.entities, null |-> FALSE]
    ELSE IF raw.body = "object"
    THEN [err |-> FALSE, entities |-> IF raw.field THEN raw.entities ELSE <<>>,
          null |-> ~raw.field]
    ELSE LLMError

\* entitiesJSON of lines 372 and 385: "[]" unless the call succeeded, then
\* json.Marshal of the slice, which is "null" for a nil slice
EntitiesJSON(useEntityMatching, reply) ==
    IF useEntityMatching /\ ~reply.err
    THEN (IF reply.null THEN "null" ELSE reply.entities)
    ELSE <<>>

\* an entity decision that leaves a title mismatch to the fuzzy scorer
EntityVerdictTitleFallback(itemText, useEntityMatching, entities) ==
    LET itemYear         == extractYear(itemText)
        itemWithoutYear  == removeYear(itemText)
        filmTitleEntity  == findEntityByType(entities, TypeFilmTitle)
        yearEntity       == findEntityByType(entities, TypeYear)
    IN  IF ~(useEntityMatching /\ Len(entities) > 0) THEN "undecided"
        ELSE IF filmTitleEntity = <<>> THEN "undecided"
        ELSE IF ToLower(TrimSpace(itemWithoutYear)) # ToLower(TrimSpace(filmTitleEntity[1].Text))
             THEN "undecided"
        ELSE IF itemYear = <<>> THEN "accept"
        ELSE IF yearEntity # <<>> /\ yearEntity[1].Text = itemYear THEN "accept"
        ELSE "reject"

\* an entity decision that leaves a year mismatch to the fuzzy scorer
EntityVerdictYearFallback(itemText, useEntityMatching, entities) ==
    LET itemYear         == extractYear(itemText)
        itemWithoutYear  == removeYear(itemText)
        filmTitleEntity  == findEntityByType(entities, TypeFilmTitle)
        yearEntity       == findEntityByType(entities, TypeYear)
    IN  IF ~(useEntityMatching /\ Len(entities) > 0) THEN "undecided"
        ELSE IF filmTitleEntity = <<>> THEN "undecided"
        ELSE IF ToLower(TrimSpace(itemWithoutYear)) # ToLower(TrimSpace(filmTitleEntity[1].Text))
             THEN "reject"
        ELSE IF itemYear = <<>> THEN "accept"
        ELSE IF yearEntity # <<>> /\ yearEntity[1].Text = itemYear THEN "accept"
        ELSE "undecided"

\* lines 397-435: "accept", "reject" (continue, no fuzzy fallback) or
\* "undecided" (fall through to the fuzzy scorer)
EntityVerdict(itemText, useEntityMatching, entities) ==
    LET itemYear         == extractYear(itemText)
        itemWithoutYear  == removeYear(itemText)
        filmTitleEntity  == findEntityByType(entities, TypeFilmTitle)
        yearEntity       == findEntityByType(entities, TypeYear)
    IN  IF ~(useEntityMatching /\ Len(entities) > 0) THEN "undecided"
        ELSE IF filmTitleEntity = <<>> THEN "undecided"
        ELSE IF ToLower(TrimSpace(itemWithoutYear)) # ToLower(TrimSpace(filmTitleEntity[1].Text))
             THEN "reject"
        ELSE IF itemYear = <<>> THEN "accept"
        ELSE IF yearEntity # <<>> /\ yearEntity[1].Text = itemYear THEN "accept"
        ELSE "reject"

\* a filter that gives up on a candidate when the LLM call fails
FilterWithoutFallback(itemText, title, config, reply) ==
    IF ~PreFilterPasses(itemText, title)
    THEN [matched |-> FALSE, steps |-> {}, entities |-> <<>>, json |-> <<>>]
    ELSE LET useEntityMatching == config.useEntityMatching
             entities == IF useEntityMatching /\ ~reply.err THEN reply.entities ELSE <<>>
             llm      == IF useEntityMatching THEN {"llm"} ELSE {}
             json     == EntitiesJSON(useEntityMatching, reply)
             verdict  == EntityVerdict(itemText, useEntityMatching, entities)
         IN  IF verdict = "reject" \/ (useEntityMatching /\ reply.err)
             THEN [matched |-> FALSE, steps |-> llm, entities |-> entities, json |-> json]
             ELSE IF verdict = "accept"
             THEN [matched |-> TRUE, steps |-> llm, entities |-> entities, json |-> json]
             ELSE [matched  |-> ScoreAtLeast(itemText, title, config.threshold),
                   steps    |-> llm \cup {"fuzzy"},
                   entities |-> entities,
                   json     |-> json]

\* a filter without the contiguous-phrase pre-filter
FilterWithoutPreFilter(itemText, title, config, reply) ==
    LET useEntityMatching == config.useEntityMatching
        entities == IF useEntityMatching /\ ~reply.err THEN reply.entities ELSE <<>>
        llm      == IF useEntityMatching THEN {"llm"} ELSE {}
        json     == EntitiesJSON(useEntityMatching, reply)
        verdict  == EntityVerdict(itemText, useEntityMatching, entities)
    IN  IF verdict = "reject"
        THEN [matched |-> FALSE, steps |-> llm, entities |-> entities, json |-> json]
        ELSE IF verdict = "accept"
        THEN [matched |-> TRUE, steps |-> llm, entities |-> entities, json |-> json]
        ELSE [matched  |-> ScoreAtLeast(itemText, title, config.threshold),
              steps    |-> llm \cup {"fuzzy"},
              entities |-> entities,
              json     |-> json]

\* lines 344-444: the pre-filter, the LLM call, the entity decision and the
\* fuzzy fallback; steps records which of the LLM and the scorer were used
FilterQualified(itemText, title, config, reply) ==
    IF ~PreFilterPasses(itemText, title)
    THEN [matched |-> FALSE, steps |-> {}, entities |-> <<>>, json |-> <<>>]
    ELSE LET useEntityMatching == config.useEntityMatching
             entities == IF useEntityMatching /\ ~reply.err THEN reply.entities ELSE <<>>
             llm      == IF useEntityMatching THEN {"llm"} ELSE {}
             json     == EntitiesJSON(useEntityMatching, reply)
             verdict  == EntityVerdict(itemText, useEntityMatching, entities)
         IN  IF verdict = "reject"
             THEN [matched |-> FALSE, steps |-> llm, entities |-> entities, json |-> json]
             ELSE IF verdict = "accept"
             THEN [matched |-> TRUE, steps |-> llm, entities |-> entities, json |-> json]
             ELSE [matched  |-> ScoreAtLeast(itemText, title, config.threshold),
                   steps    |-> llm \cup {"fuzzy"},
                   entities |-> entities,
                   json     |-> json]

\* a filter that does not look at the quality markers
FilterWithoutQualityGate(itemText, title, config, reply) ==
    FilterQualified(itemText, title, config, reply)

\* lines 324-444: the quality gate of line 325 first, then the rest
FilterCandidate(itemText, title, config, reply) ==
    IF disqualifiedQuality(title)
    THEN [matched |-> FALSE, steps |-> {}, entities |-> <<>>, json |-> <<>>]
    ELSE FilterQualified(itemText, title, config, reply)

\* the filter tabulated over the texts, titles and configurations of the model
FilterTable ==
    [t \in ItemTexts, title \in Titles, c \in Configs, kind \in LLMKinds |->
        FilterCandidate(t, title, c, extractEntities(RawReply(title, kind)))]

\* the candidates for which the worker calls the LLM (line 376)
CallsLLM ==
    [t \in ItemTexts, title \in Titles, c \in Configs |->
        c.useEntityMatching /\ ~disqualifiedQuality(title) /\ PreFilterPasses(t, title)]

(***************************************************************************)
(* State                                                                   *)
(***************************************************************************)

VARIABLES
    cfg,            \* the environment variables (fixed for the process)
    items,          \* table items: a set of Item{ID, Text}
    urls,           \* table urls: a set of rows {ID, Site}, Site the site the
                    \* row's url, display_name and config stand for
    matches,        \* table matches: rows per (item_id, matched_url, source_site)
    workerRunning,  \* the atomic.Bool
    run,            \* per goroutine: where runWorker stands and its locals
    wsClients,      \* the map wsClients (its key set)
    wsConn,         \* per connection: "idle", "open", "gone" (peer lost), "closed"
    wsReading,      \* connections whose wsHandler is in its read loop
    lastResp,       \* status of the last POST /api/trigger-worker answer
    faults,         \* failures injected so far
    apiOps,         \* mutating API requests so far
    crashed,        \* the process died of a panic
    hist,           \* per goroutine: what its current (or last) run did
    bcast,          \* the last broadcast: its targets, and who of them was written
    ranBefore,      \* some worker run has ended (released the flag)
    nextId,         \* the next value of the sequence behind items.id (SERIAL)
    posts,          \* per POST /api/items request: where itemsHandler stands
    ollama,         \* ollamaCmd, its child process, and the LLM endpoint
    phase,          \* main: "serving", "stopping", "closing", "exited"
    nextUrlId,      \* the next value of the sequence behind urls.id (SERIAL)
    wsMux,          \* wsClientsMux: the goroutines inside a broadcast (none or one)
    wsAt,           \* per connection: the log.Printf its wsHandler stands at
                    \* ("connected", "disconnected"), or "none"
    call            \* one call of a function of the program made on its own:
                    \* the function, its arguments, its result once returned

vars == << cfg, items, urls, matches, workerRunning, run, wsClients, wsConn,
           wsReading, lastResp, faults, apiOps, crashed, hist, bcast, ranBefore,
           nextId, posts, ollama, phase, nextUrlId, wsMux, wsAt,
           call >>

\* goroutine 0 is the scheduler's; 1..MaxManual are those of "go runWorker()"
Scheduler == 0

Procs == 0..MaxManual

Conns == 1..MaxConns

MatchKeys == [item_id : ItemIds, matched_url : CandUrls, source_site : SiteIds]

NoCand == [Title |-> <<>>, URL |-> 0]

\* the locals of runWorker; pc "idle" is "not in runWorker"; reported is the
\* answer of the request that started the goroutine ("none": the scheduler)
IdleRun ==
    [pc |-> "idle", items |-> <<>>, scrapers |-> <<>>, pw |-> FALSE,
     it |-> 0, s |-> 0, results |-> <<>>, r |-> 0, matchesFound |-> 0,
     cand |-> NoCand, panicking |-> FALSE, reported |-> "none"]

\* observations of one run (reset when a run acquires the flag)
\* (stores, completed: Store(false) and "completed" broadcasts of the run;
\* items, logged: its snapshot and the LogEntries it wrote; rowsAdded,
\* newMatch, sms: rows it added to matches, new_match broadcasts and SMS
\* attempts for the current item; title, steps, last: the candidate it
\* handled last, what it did for it, and what the insert reported; llm,
\* entities, json: the kind of answer the LLM gave for that candidate, the
\* entities extracted and entitiesJSON; persisted: the entities column of
\* the row added last; logEvents: new_log broadcasts of the run; errors:
\* the calls of the item loop that returned an error in this run; magnet:
\* magnetLink after line 458 for that candidate, "link" or "empty"; stored:
\* the magnet_link column of the row added last; scrapers: the sites as
\* loadUrls returned them; itemReads, urlReads: calls of loadItems and of
\* loadUrls that returned rows; urlRows: the rows loadUrls returned;
\* visited: the ids of the items started, in order; logSteps: the times
\* the run reached insertLog; trace: the calls made for the current item,
\* in order, see Event)
NoHist ==
    [acquired |-> FALSE, stores |-> 0, completed |-> 0, items |-> <<>>,
     logged |-> <<>>, rowsAdded |-> 0, newMatch |-> 0, sms |-> 0, smsFailed |-> <<>>,
     title |-> <<>>, steps |-> {}, last |-> "none",
     llm |-> "none", entities |-> <<>>, json |-> <<>>, persisted |-> "none",
     logEvents |-> 0, errors |-> {}, magnet |-> "none", stored |-> "none",
     scrapers |-> <<>>, itemReads |-> 0, urlReads |-> 0,
     urlRows |-> <<>>, visited |-> <<>>, logSteps |-> 0, trace |-> <<>>]

\* one call of the item loop: op is "search" (s.Search), "llm"
\* (extractEntities), "magnet" (extractMagnetLinkFromURL) or "insert"
\* (insertMatchWithEntities); site and cand say for what (cand is NoCand
\* for a search); n is matchesFound when the call was made
Event(op, site, cand, n) == [op |-> op, site |-> site, cand |-> cand, n |-> n]

\* the latest broadcast: the clients it wrote to (to) and reached (ok); the
\* latest worker_status event (status) and the run that sent it (by)
NoBcast == [to |-> {}, ok |-> {}, status |-> "none", by |-> Scheduler]

\* the rows of a table in descending id
RECURSIVE SortByIdDesc(_)
SortByIdDesc(rows) ==
    IF rows = {} THEN <<>>
    ELSE LET first == CHOOSE x \in rows : \A y \in rows : x.ID >= y.ID
         IN  <<first>> \o SortByIdDesc(rows \ {first})

\* the rows of a table in ascending id (ORDER BY id ASC)
RECURSIVE SortById(_)
SortById(rows) ==
    IF rows = {} THEN <<>>
    ELSE LET first == CHOOSE x \in rows : \A y \in rows : x.ID <= y.ID
         IN  <<first>> \o SortById(rows \ {first})

RECURSIVE SortAsc(_)
SortAsc(ids) ==
    IF ids = {} THEN <<>>
    ELSE LET first == CHOOSE x \in ids : \A y \in ids : x <= y
         IN  <<first>> \o SortAsc(ids \ {first})

InitialItems(k) == {[ID |-> i, Text |-> InitialText(i)] : i \in 1..k}

\* the POST /api/items requests of a behaviour
PostReqs == 1..MaxPosts

NoPost == [pc |-> "idle", text |-> <<>>, status |-> 0]

\* line 690: the polls of the listing route after the child was started
PollBudget == 30

\* a loop that polls once more than the budget
RECURSIVE PollOnceMore(_, _)
PollOnceMore(i, readyAt) ==
    IF i > PollBudget
    THEN [ready |-> FALSE, polls |-> i]
    ELSE IF i + 1 >= readyAt
    THEN [ready |-> TRUE, polls |-> i + 1]
    ELSE PollOnceMore(i + 1, readyAt)

\* lines 690-698: "for i := 0; i < 30; i++": sleep, GET /api/tags, return nil
\* if it answers; the route answers from poll number readyAt on
RECURSIVE PollUntil(_, _)
PollUntil(i, readyAt) ==
    IF ~(i < PollBudget)
    THEN [ready |-> FALSE, polls |-> i]
    ELSE IF i + 1 >= readyAt
    THEN [ready |-> TRUE, polls |-> i + 1]
    ELSE PollUntil(i + 1, readyAt)

\* lines 664-701, startOllama: reachable is the answer of the first GET of
\* /api/tags, startOk that of ollamaCmd.Start(), readyAt the poll at which
\* the route first answers.  cmd is "ollamaCmd != nil", child the state of
\* the process behind ollamaCmd.Process, up "the endpoint answers"
\* (probe, started, readyAt repeat the three inputs; spawns counts the calls
\* of ollamaCmd.Start(), polls the GETs of the loop)
startOllama(reachable, startOk, readyAt) ==
    LET in == [probe |-> reachable, started |-> ~reachable /\ startOk,
               readyAt |-> readyAt]
    IN  IF reachable
        THEN in @@ [err |-> FALSE, cmd |-> FALSE, child |-> "none", up |-> TRUE,
                    spawns |-> 0, polls |-> 0]
        ELSE IF ~startOk
        THEN in @@ [err |-> TRUE, cmd |-> TRUE, child |-> "none", up |-> FALSE,
                    spawns |-> 1, polls |-> 0]
        ELSE LET w == PollUntil(0, readyAt)
             IN  in @@ [err |-> ~w.ready, cmd |-> TRUE, child |-> "running",
                        up |-> w.ready, spawns |-> 1, polls |-> w.polls]

\* lines 117-145 of main: startOllama is called only with entity matching on
OllamaAtStart(useEntityMatching, reachable, startOk, readyAt) ==
    IF useEntityMatching
    THEN startOllama(reachable, startOk, readyAt)
    ELSE [err |-> FALSE, cmd |-> FALSE, child |-> "none", up |-> reachable,
          probe |-> reachable, started |-> FALSE, readyAt |-> readyAt,
          spawns |-> 0, polls |-> 0]

\* no function is called on its own
NoCall == [fn |-> "none", in |-> <<>>, out |-> <<>>, done |-> FALSE]

\* the process after main has initialised: no run, no subscriber, no match
Boot ==
    /\ cfg \in Configs
    /\ matches = [k \in MatchKeys |-> 0]
    /\ workerRunning = FALSE
    /\ run = [p \in Procs |-> IdleRun]
    /\ wsClients = {}
    /\ wsConn = [c \in Conns |-> "idle"]
    /\ wsReading = {}
    /\ wsMux = {}
    /\ wsAt = [c \in Conns |-> "none"]
    /\ lastResp = "none"
    /\ crashed = FALSE
    /\ hist = [p \in Procs |-> NoHist]
    /\ bcast = NoBcast
    /\ ranBefore = FALSE
    /\ posts = [q \in PostReqs |-> NoPost]
    /\ phase = "serving"

\* the urls table with a row for each of the first k sites
InitialUrls(k) == {[ID |-> i, Site |-> i] : i \in 1..k}

\* the LLM server was already running when main looked for it
Init ==
    /\ Boot
    /\ items \in {InitialItems(0), InitialItems(MaxItems)}
    /\ nextId = Cardinality(items) + 1
    /\ urls \in {InitialUrls(0), InitialUrls(MaxSites)}
    /\ nextUrlId = Cardinality(urls) + 1
    /\ ollama = OllamaAtStart(cfg.useEntityMatching, TRUE, TRUE, 1)
    /\ faults = 0
    /\ apiOps = 0
    /\ call = NoCall

\* the process exists: no unrecovered panic, and main has not returned
Alive == ~crashed /\ phase # "exited"

\* the environment may inject one more failure
CanFail == faults < MaxFaults

Fail == faults' = faults + 1

(***************************************************************************)
(* Live-subscriber registry: wsHandler and the three broadcast functions   *)
(***************************************************************************)

\* client.WriteJSON returns an error: the peer is lost or the socket closed
WriteFails(c) == wsConn[c] # "open"

\* a broadcast that forgets to drop the clients it could not write to
KeepAllClients(clients, failed) == clients

\* the map after the loop of a broadcast: delete(wsClients, client) for every
\* client whose write failed
KeptClients(clients, failed) == clients \ failed

\* broadcastWorkerStatus / broadcastNewMatch / broadcastNewLog: under the
\* mutex, write to every registered client; close and delete those that fail
Broadcast(type, p) ==
    LET failed == {c \in wsClients : WriteFails(c)}
        isStatus == type \in {"running", "completed"}
    IN  /\ wsMux = {}
        /\ wsMux' = {p}
        /\ wsClients' = KeptClients(wsClients, failed)
        /\ wsConn' = [c \in Conns |-> IF c \in failed THEN "closed" ELSE wsConn[c]]
        /\ bcast' = [to |-> wsClients, ok |-> wsClients \ failed,
                     status |-> IF isStatus THEN type ELSE bcast.status,
                     by |-> IF isStatus THEN p ELSE bcast.by]
        /\ UNCHANGED wsReading

NoBroadcast == UNCHANGED << wsClients, wsConn, wsReading, bcast, wsMux >>

\* the deferred wsClientsMux.Unlock() of a broadcast function
BroadcastDone(p) ==
    /\ Alive
    /\ wsMux = {p}
    /\ wsMux' = {}
    /\ UNCHANGED << cfg, call, wsAt, items, urls, matches, workerRunning, run, wsClients,
                    wsConn, wsReading, lastResp, faults, apiOps, crashed, hist, bcast,
                    ranBefore, nextId, posts, ollama, phase, nextUrlId >>

\* wsHandler, lines 1377-1385: upgrade, then Lock, register, Unlock
WsConnect(c) ==
    /\ Alive
    /\ wsConn[c] = "idle"
    /\ wsMux = {}
    /\ wsConn' = [wsConn EXCEPT ![c] = "open"]
    /\ wsClients' = wsClients \cup {c}
    /\ wsAt' = [wsAt EXCEPT ![c] = "connected"]
    /\ UNCHANGED << cfg, call, wsMux, wsReading, nextUrlId, nextId, posts, ollama, phase, items, urls, matches, workerRunning, run, lastResp,
                    faults, apiOps, crashed, hist, bcast, ranBefore >>

\* the peer goes away: reads and writes on the connection fail from now on
WsPeerGone(c) ==
    /\ Alive
    /\ wsConn[c] = "open"
    /\ wsConn' = [wsConn EXCEPT ![c] = "gone"]
    /\ UNCHANGED << cfg, call, wsMux, wsAt, nextUrlId, nextId, posts, ollama, phase, items, urls, matches, workerRunning, run, wsClients,
                    wsReading, lastResp, faults, apiOps, crashed, hist, bcast,
                    ranBefore >>

\* a handler that returns without its deferred delete
StaysRegistered(clients, c) == clients

\* line 1392: delete(wsClients, conn) in the deferred function of wsHandler
Unregistered(clients, c) == clients \ {c}

\* wsHandler, lines 1387 and 1395: log.Printf of len(wsClients), after the
\* Unlock; then the read loop (after the connect) or the return
WsLogCount(c) ==
    /\ Alive
    /\ wsAt[c] # "none"
    /\ wsAt' = [wsAt EXCEPT ![c] = "none"]
    /\ wsReading' = IF wsAt[c] = "connected" THEN wsReading \cup {c} ELSE wsReading
    /\ UNCHANGED << cfg, call, wsMux, items, urls, matches, workerRunning, run, wsClients,
                    wsConn, lastResp, faults, apiOps, crashed, hist, bcast,
                    ranBefore, nextId, posts, ollama, phase, nextUrlId >>

\* wsHandler: ReadMessage fails, the deferred function unregisters under the
\* mutex and closes
WsHandlerExit(c) ==
    /\ Alive
    /\ c \in wsReading
    /\ wsConn[c] \in {"gone", "closed"}
    /\ wsMux = {}
    /\ wsClients' = Unregistered(wsClients, c)
    /\ wsConn' = [wsConn EXCEPT ![c] = "closed"]
    /\ wsReading' = wsReading \ {c}
    /\ wsAt' = [wsAt EXCEPT ![c] = "disconnected"]
    /\ UNCHANGED << cfg, call, wsMux, nextUrlId, nextId, posts, ollama, phase, items, urls, matches, workerRunning, run, lastResp,
                    faults, apiOps, crashed, hist, bcast, ranBefore >>

(***************************************************************************)
(* Triggers (scheduler, triggerWorkerHandler) and the gate of runWorker    *)
(***************************************************************************)

\* the scheduler calls runWorker: on start (runOnStart) or on a tick
Tick ==
    /\ Alive
    /\ run[Scheduler].pc = "idle"
    /\ run' = [run EXCEPT ![Scheduler].pc = "cas"]
    /\ UNCHANGED << cfg, call, wsMux, wsAt, nextUrlId, nextId, posts, ollama, phase, items, urls, matches, workerRunning, wsClients, wsConn,
                    wsReading, lastResp, faults, apiOps, crashed, hist, bcast,
                    ranBefore >>

\* a handler that never finds the flag set
LoadNeverSaysRunning(flag) == FALSE

\* line 1360: workerRunning.Load() says "already running"
LoadSaysRunning(flag) == flag

\* POST /api/trigger-worker
triggerWorkerHandler ==
    /\ Alive
    /\ IF LoadSaysRunning(workerRunning)
       THEN /\ lastResp' = "already_running"
            /\ UNCHANGED run
       ELSE /\ \E g \in Procs \ {Scheduler} :
                  /\ run[g].pc = "idle"
                  /\ run' = [run EXCEPT ![g].pc = "cas", ![g].reported = "triggered"]
            /\ lastResp' = "triggered"
    /\ UNCHANGED << cfg, call, wsMux, wsAt, nextUrlId, nextId, posts, ollama, phase, items, urls, matches, workerRunning, wsClients, wsConn,
                    wsReading, faults, apiOps, crashed, hist, bcast, ranBefore >>

\* a gate that lets every caller through
CasAlwaysSucceeds(flag) == TRUE

\* line 240: CompareAndSwap(false, true) succeeds
CasSucceeds(flag) == flag = FALSE

\* runWorker, lines 240-247: the gate, and the registration of the deferred
\* release
Gate(p) ==
    /\ Alive
    /\ p \notin wsMux
    /\ run[p].pc = "cas"
    /\ IF CasSucceeds(workerRunning)
       THEN /\ workerRunning' = TRUE
            /\ run' = [run EXCEPT ![p].pc = "begin"]
            /\ hist' = [hist EXCEPT ![p] = [NoHist EXCEPT !.acquired = TRUE]]
       ELSE /\ run' = [run EXCEPT ![p] = IdleRun]
            /\ UNCHANGED << workerRunning, hist >>
    /\ UNCHANGED << cfg, call, wsMux, wsAt, nextUrlId, nextId, posts, ollama, phase, items, urls, matches, wsClients, wsConn, wsReading,
                    lastResp, faults, apiOps, crashed, bcast, ranBefore >>

(***************************************************************************)
(* runWorker after the gate                                                *)
(***************************************************************************)

\* a deferred function that only broadcasts
DeferredWithoutStore == "completed"

\* where a return (or a panic) continues: the deferred function of line 244
DeferredEntry == "release"

\* the per-item cap of line 302
maxMatchesPerItem == 5

\* a cap that is tested with > instead of >=
CapExceeded(matchesFound) == matchesFound > maxMatchesPerItem

\* lines 306, 320, 485: matchesFound >= maxMatchesPerItem
CapReached(matchesFound) == matchesFound >= maxMatchesPerItem

\* lines 249-253: read the configuration, broadcast "running"
Begin(p) ==
    /\ Alive
    /\ p \notin wsMux
    /\ run[p].pc = "begin"
    /\ Broadcast("running", p)
    /\ run' = [run EXCEPT ![p].pc = "loadItems"]
    /\ UNCHANGED << cfg, call, wsAt, nextUrlId, nextId, posts, ollama, phase, items, urls, matches, workerRunning, lastResp, faults,
                    apiOps, crashed, hist, ranBefore >>

\* lines 255-263: loadItems; return on an error or on no items
LoadItems(p) ==
    /\ Alive
    /\ p \notin wsMux
    /\ run[p].pc = "loadItems"
    /\ \E err \in {FALSE} \cup {e \in {TRUE} : CanFail} :
          IF err
          THEN /\ Fail
               /\ run' = [run EXCEPT ![p].pc = DeferredEntry]
               /\ UNCHANGED hist
          ELSE LET snapshot == SortById(items)
               IN  /\ run' = [run EXCEPT ![p].items = snapshot,
                                         ![p].pc = IF snapshot = <<>> THEN DeferredEntry
                                                   ELSE "loadUrls"]
                   /\ hist' = [hist EXCEPT ![p].items = snapshot,
                                           ![p].itemReads = @ + 1]
                   /\ UNCHANGED faults
    /\ UNCHANGED << cfg, call, wsMux, wsAt, nextUrlId, nextId, posts, ollama, phase, items, urls, matches, workerRunning, wsClients, wsConn,
                    wsReading, lastResp, apiOps, crashed, bcast, ranBefore >>

\* lines 265-282: loadUrls, one scraper per site; return on an error or on
\* no sites
LoadUrls(p) ==
    /\ Alive
    /\ p \notin wsMux
    /\ run[p].pc = "loadUrls"
    /\ \E err \in {FALSE} \cup {e \in {TRUE} : CanFail} :
          IF err
          THEN /\ Fail
               /\ run' = [run EXCEPT ![p].pc = DeferredEntry]
               /\ UNCHANGED hist
          ELSE LET rows     == SortById(urls)
                   scrapers == [j \in 1..Len(rows) |-> rows[j].Site]
               IN  /\ run' = [run EXCEPT ![p].scrapers = scrapers,
                                         ![p].pc = IF scrapers = <<>> THEN DeferredEntry
                                                   ELSE "startPw"]
                   /\ hist' = [hist EXCEPT ![p].scrapers = scrapers,
                                           ![p].urlRows = rows,
                                           ![p].urlReads = @ + 1]
                   /\ UNCHANGED faults
    /\ UNCHANGED << cfg, call, wsMux, wsAt, nextUrlId, nextId, posts, ollama, phase, items, urls, matches, workerRunning, wsClients, wsConn,
                    wsReading, lastResp, apiOps, crashed, bcast, ranBefore >>

\* lines 284-298: start the browser driver unless DISABLE_PLAYWRIGHT; return
\* if it does not start
StartPlaywright(p) ==
    /\ Alive
    /\ p \notin wsMux
    /\ run[p].pc = "startPw"
    /\ IF cfg.disablePW
       THEN /\ run' = [run EXCEPT ![p].pc = "items"]
            /\ UNCHANGED faults
       ELSE \E err \in {FALSE} \cup {e \in {TRUE} : CanFail} :
               IF err
               THEN /\ Fail
                    /\ run' = [run EXCEPT ![p].pc = DeferredEntry]
               ELSE /\ run' = [run EXCEPT ![p].pw = TRUE, ![p].pc = "items"]
                    /\ UNCHANGED faults
    /\ UNCHANGED << cfg, call, wsMux, wsAt, nextUrlId, nextId, posts, ollama, phase, items, urls, matches, workerRunning, wsClients, wsConn,
                    wsReading, lastResp, apiOps, crashed, hist, bcast, ranBefore >>

\* an item loop that reads the items table again for every item
RereadItems(snapshot, table) == SortById(table)

\* line 300: the loop ranges over the slice loadItems returned
RangeItems(snapshot, table) == snapshot

\* line 304: the site loop of each item ranges over the scrapers of line 281
RangeScrapers(snapshot, table) == snapshot

\* line 300: the next item of the snapshot, or the end of the run (line 510)
NextItem(p) ==
    /\ Alive
    /\ p \notin wsMux
    /\ run[p].pc = "items"
    /\ IF run[p].it < Len(run[p].items)
       THEN /\ run' = [run EXCEPT ![p].items = RangeItems(@, items),
                                  ![p].scrapers = RangeScrapers(@, urls),
                                  ![p].it = @ + 1, ![p].s = 0, ![p].results = <<>>,
                                  ![p].r = 0, ![p].matchesFound = 0, ![p].pc = "sites"]
            /\ hist' = [hist EXCEPT ![p].rowsAdded = 0, ![p].newMatch = 0,
                                    ![p].sms = 0, ![p].smsFailed = <<>>, ![p].title = <<>>, ![p].steps = {},
                                    ![p].last = "none", ![p].llm = "none",
                                    ![p].entities = <<>>, ![p].json = <<>>,
                                    ![p].persisted = "none",
                                    ![p].magnet = "none", ![p].stored = "none",
                                    ![p].trace = <<>>,
                                    ![p].visited =
                                        Append(@, run[p].items[run[p].it + 1].ID)]
       ELSE /\ run' = [run EXCEPT ![p].pc = DeferredEntry]
            /\ UNCHANGED hist
    /\ UNCHANGED << cfg, call, wsMux, wsAt, nextUrlId, nextId, posts, ollama, phase, items, urls, matches, workerRunning, wsClients, wsConn,
                    wsReading, lastResp, faults, apiOps, crashed, bcast, ranBefore >>

\* an error that ends the item instead of one site or candidate
ErrorEndsItem == "log"

\* line 314: continue (the next site) after a search error
AfterSearchError == "sites"

\* line 464: continue (the next candidate) after an insert error
AfterInsertError == "cands"

\* a failed magnet extraction that drops the match
MagnetErrorSkips == "cands"

\* lines 454-460: after a failed magnet extraction the insert still follows
AfterMagnetError == "insert"

\* a magnet extraction for every candidate that reaches the filter
ExtractsMagnetAlways(matched) == TRUE

\* lines 446-452: extractMagnetLinkFromURL is called after "if !matched
\* { continue }"
ExtractsMagnet(matched) == matched

\* the ways extractMagnetLinkFromURL returns an error: the browser or the
\* navigation fails, or the page has no magnet link (line 1964)
MagnetFailures == {"magnet", "nomagnet"}

\* lines 304-316: the next site unless the cap is reached; search it.
\* GenericScraper.Search returns nil without a browser (line 1612), an error,
\* or the site's listing
NextSite(p) ==
    /\ Alive
    /\ p \notin wsMux
    /\ run[p].pc = "sites"
    /\ IF run[p].s = Len(run[p].scrapers) \/ CapReached(run[p].matchesFound)
       THEN /\ run' = [run EXCEPT ![p].pc = "log"]
            /\ UNCHANGED << faults, hist >>
       ELSE LET site == run[p].scrapers[run[p].s + 1]
                ev   == Event("search", site, NoCand, run[p].matchesFound)
            IN  IF ~run[p].pw
                THEN /\ run' = [run EXCEPT ![p].s = @ + 1, ![p].results = <<>>,
                                           ![p].r = 0]
                     /\ hist' = [hist EXCEPT ![p].trace = Append(@, ev)]
                     /\ UNCHANGED faults
                ELSE \E err \in {FALSE} \cup {e \in {TRUE} : CanFail} :
                        IF err
                        THEN /\ Fail
                             /\ run' = [run EXCEPT ![p].s = @ + 1, ![p].results = <<>>,
                                                   ![p].r = 0, ![p].pc = AfterSearchError]
                             /\ hist' = [hist EXCEPT ![p].errors = @ \cup {"search"},
                                                     ![p].trace = Append(@, ev)]
                        ELSE /\ run' = [run EXCEPT ![p].s = @ + 1,
                                                   ![p].results = SiteListing(site),
                                                   ![p].r = 0, ![p].pc = "cands"]
                             /\ hist' = [hist EXCEPT ![p].trace = Append(@, ev)]
                             /\ UNCHANGED faults
    /\ UNCHANGED << cfg, call, wsMux, wsAt, nextUrlId, nextId, posts, ollama, phase, items, urls, matches, workerRunning, wsClients, wsConn,
                    wsReading, lastResp, apiOps, crashed, bcast, ranBefore >>

\* the failures the environment may inject while one candidate is filtered:
\* of the LLM call (if one is made) and of the magnet extraction (if the
\* candidate matches); with the endpoint down the POST of line 817 fails
CandFaults(itemText, title) ==
    IF CallsLLM[itemText, title, cfg] /\ ~ollama.up THEN {"unreachable"}
    ELSE
    {"none"}
    \cup {f \in LLMFailures \cup LLMOddities : CanFail /\ CallsLLM[itemText, title, cfg]}
    \cup {f \in MagnetFailures : CanFail /\ FilterTable[itemText, title, cfg, "entities"].matched}

\* lines 317-458: the next candidate of the result list: the cap, the filter
\* and, for a confirmed match, extractMagnetLinkFromURL
NextCand(p) ==
    /\ Alive
    /\ p \notin wsMux
    /\ run[p].pc = "cands"
    /\ IF run[p].r = Len(run[p].results) \/ CapReached(run[p].matchesFound)
       THEN /\ run' = [run EXCEPT ![p].pc = "sites"]
            /\ UNCHANGED << faults, hist >>
       ELSE LET it == run[p].items[run[p].it]
                c  == run[p].results[run[p].r + 1]
            IN  \E f \in CandFaults(it.Text, c.Title) :
                  LET kind == IF f \in LLMKinds THEN f ELSE "entities"
                      d    == FilterTable[it.Text, c.Title, cfg, kind]
                      llm  == IF "llm" \in d.steps THEN kind ELSE "none"
                      errs == {e \in {"llm"} : f \in LLMFailures}
                              \cup {e \in {"magnet"} : f \in MagnetFailures}
                      magnetLink == IF f \in MagnetFailures THEN "empty" ELSE "link"
                      site == run[p].scrapers[run[p].s]
                      evs  == (IF "llm" \in d.steps
                               THEN <<Event("llm", site, c, run[p].matchesFound)>>
                               ELSE <<>>)
                              \o (IF ExtractsMagnet(d.matched)
                                  THEN <<Event("magnet", site, c, run[p].matchesFound)>>
                                  ELSE <<>>)
                  IN  /\ faults' = IF f = "none" \/ ~ollama.up THEN faults ELSE faults + 1
                      /\ IF d.matched
                         THEN /\ run' = [run EXCEPT ![p].r = @ + 1, ![p].cand = c,
                                                    ![p].pc = IF f \in MagnetFailures
                                                              THEN AfterMagnetError
                                                              ELSE "insert"]
                              /\ hist' = [hist EXCEPT ![p].title = c.Title,
                                                      ![p].steps = d.steps \cup {"magnet"},
                                                      ![p].last = "none",
                                                      ![p].llm = llm,
                                                      ![p].entities = d.entities,
                                                      ![p].json = d.json,
                                                      ![p].magnet = magnetLink,
                                                      ![p].trace = @ \o evs,
                                                      ![p].errors = @ \cup errs]
                         ELSE /\ run' = [run EXCEPT ![p].r = @ + 1]
                              /\ hist' = [hist EXCEPT ![p].title = c.Title,
                                                      ![p].steps = d.steps \cup
                                                          {m \in {"magnet"} : ExtractsMagnet(d.matched)},
                                                      ![p].last = "none",
                                                      ![p].llm = llm,
                                                      ![p].entities = d.entities,
                                                      ![p].json = d.json,
                                                      ![p].magnet = "none",
                                                      ![p].trace = @ \o evs,
                                                      ![p].errors = @ \cup errs]
    /\ UNCHANGED << cfg, call, wsMux, wsAt, nextUrlId, nextId, posts, ollama, phase, items, urls, matches, workerRunning, wsClients, wsConn,
                    wsReading, lastResp, apiOps, crashed, bcast, ranBefore >>

\* an insert without the unique index: every row for a live item is added
insertWithoutUniqueIndex(table, itemRows, key) ==
    IF key.item_id \notin {i.ID : i \in itemRows}
    THEN [table |-> table, inserted |-> FALSE, err |-> TRUE]
    ELSE [table |-> [table EXCEPT ![key] = @ + 1], inserted |-> TRUE, err |-> FALSE]

\* an insert into a table without the foreign key on item_id
insertWithoutForeignKey(table, itemRows, key) ==
    IF table[key] > 0
    THEN [table |-> table, inserted |-> FALSE, err |-> FALSE]
    ELSE [table |-> [table EXCEPT ![key] = @ + 1], inserted |-> TRUE, err |-> FALSE]

\* an insert that reports success without reading RowsAffected
insertIgnoringRowsAffected(table, itemRows, key) ==
    IF key.item_id \notin {i.ID : i \in itemRows}
    THEN [table |-> table, inserted |-> FALSE, err |-> TRUE]
    ELSE IF table[key] > 0
    THEN [table |-> table, inserted |-> TRUE, err |-> FALSE]
    ELSE [table |-> [table EXCEPT ![key] = @ + 1], inserted |-> TRUE, err |-> FALSE]

\* insertMatchWithEntities on the tables: the foreign key of item_id fails the
\* insert of a row for a deleted item; ON CONFLICT DO NOTHING on the unique
\* index leaves an existing row alone; RowsAffected() > 0 is "inserted"
insertMatchWithEntities(table, itemRows, key) ==
    IF key.item_id \notin {i.ID : i \in itemRows}
    THEN [table |-> table, inserted |-> FALSE, err |-> TRUE]
    ELSE IF table[key] > 0
    THEN [table |-> table, inserted |-> FALSE, err |-> FALSE]
    ELSE [table |-> [table EXCEPT ![key] = @ + 1], inserted |-> TRUE, err |-> FALSE]

\* lines 460-467: insert the confirmed match; count it if the row is new
InsertMatch(p) ==
    /\ Alive
    /\ p \notin wsMux
    /\ run[p].pc = "insert"
    /\ LET it  == run[p].items[run[p].it]
           key == [item_id |-> it.ID, matched_url |-> run[p].cand.URL,
                   source_site |-> run[p].scrapers[run[p].s]]
           res == insertMatchWithEntities(matches, items, key)
           ev  == Event("insert", run[p].scrapers[run[p].s], run[p].cand,
                        run[p].matchesFound)
       IN  \E err \in {FALSE} \cup {e \in {TRUE} : CanFail} :
              IF err
              THEN /\ Fail
                   /\ run' = [run EXCEPT ![p].cand = NoCand, ![p].pc = AfterInsertError]
                   /\ hist' = [hist EXCEPT ![p].steps = @ \cup {"insert"},
                                           ![p].trace = Append(@, ev),
                                           ![p].last = "err",
                                           ![p].errors = @ \cup {"insert"}]
                   /\ UNCHANGED matches
              ELSE /\ matches' = res.table
                   /\ hist' = [hist EXCEPT ![p].steps = @ \cup {"insert"},
                                           ![p].trace = Append(@, ev),
                                           ![p].rowsAdded = @ + res.table[key] - matches[key],
                                           ![p].last = IF res.err THEN "err"
                                                       ELSE IF res.inserted THEN "new"
                                                       ELSE "dup",
                                           ![p].persisted =
                                               IF ~res.err /\ res.inserted
                                               THEN hist[p].json ELSE @,
                                           ![p].stored =
                                               IF ~res.err /\ res.inserted
                                               THEN hist[p].magnet ELSE @,
                                           ![p].errors =
                                               IF res.err THEN @ \cup {"insert"} ELSE @]
                   /\ run' = IF res.err
                             THEN [run EXCEPT ![p].cand = NoCand, ![p].pc = AfterInsertError]
                             ELSE IF res.inserted
                             THEN [run EXCEPT ![p].matchesFound = @ + 1, ![p].pc = "notify"]
                             ELSE [run EXCEPT ![p].cand = NoCand, ![p].pc = "cands"]
                   /\ UNCHANGED faults
    /\ UNCHANGED << cfg, call, wsMux, wsAt, nextUrlId, nextId, posts, ollama, phase, items, urls, workerRunning, wsClients, wsConn, wsReading,
                    lastResp, apiOps, crashed, bcast, ranBefore >>

\* lines 471-489: broadcastNewMatch, maybeSendTwilioSMS (an attempt if all
\* four settings are set; its error is only logged), then the cap
Notify(p) ==
    /\ Alive
    /\ p \notin wsMux
    /\ run[p].pc = "notify"
    /\ Broadcast("new_match", p)
    /\ \E err \in {FALSE} \cup {e \in {TRUE} : CanFail /\ SmsConfigured(cfg)} :
          /\ faults' = IF err THEN faults + 1 ELSE faults
          /\ hist' = [hist EXCEPT ![p].newMatch = @ + 1,
                                  ![p].sms = IF SmsConfigured(cfg) THEN @ + 1 ELSE @,
                                  ![p].smsFailed =
                                      IF err THEN Append(@, run[p].matchesFound) ELSE @,
                                  ![p].errors = IF err THEN @ \cup {"sms"} ELSE @]
    /\ run' = IF CapReached(run[p].matchesFound)
              THEN [run EXCEPT ![p].cand = NoCand, ![p].pc = "sites"]
              ELSE [run EXCEPT ![p].cand = NoCand, ![p].pc = "cands"]
    /\ UNCHANGED << cfg, call, wsAt, nextUrlId, nextId, posts, ollama, phase, items, urls, matches, workerRunning, lastResp, apiOps,
                    crashed, ranBefore >>

\* lines 493-507: insertLog, and broadcastNewLog if the insert succeeded
LogItem(p) ==
    /\ Alive
    /\ p \notin wsMux
    /\ run[p].pc = "log"
    /\ LET it      == run[p].items[run[p].it]
           success == run[p].matchesFound > 0
       IN  \E err \in {FALSE} \cup {e \in {TRUE} : CanFail} :
              IF err
              THEN /\ Fail
                   /\ NoBroadcast
                   /\ hist' = [hist EXCEPT ![p].errors = @ \cup {"log"},
                                           ![p].logSteps = @ + 1]
              ELSE /\ hist' = [hist EXCEPT ![p].logged =
                                   Append(@, [ID |-> it.ID, success |-> success]),
                                           ![p].logEvents = @ + 1,
                                           ![p].logSteps = @ + 1]
                   /\ Broadcast("new_log", p)
                   /\ UNCHANGED faults
    /\ run' = [run EXCEPT ![p].pc = "items"]
    /\ UNCHANGED << cfg, call, wsAt, nextUrlId, nextId, posts, ollama, phase, items, urls, matches, workerRunning, lastResp, apiOps,
                    crashed, ranBefore >>

\* a panic inside a browser call of the item loop: the deferred functions run
Panic(p) ==
    /\ Alive
    /\ p \notin wsMux
    /\ run[p].pc \in {"sites", "cands"}
    /\ CanFail
    /\ Fail
    /\ run' = [run EXCEPT ![p].panicking = TRUE, ![p].pc = DeferredEntry]
    /\ UNCHANGED << cfg, call, wsMux, wsAt, nextUrlId, nextId, posts, ollama, phase, items, urls, matches, workerRunning, wsClients, wsConn,
                    wsReading, lastResp, apiOps, crashed, hist, bcast, ranBefore >>

\* the deferred function, line 245 (after pw.Stop of line 296):
\* workerRunning.Store(false)
Release(p) ==
    /\ Alive
    /\ p \notin wsMux
    /\ run[p].pc = "release"
    /\ workerRunning' = FALSE
    /\ run' = [run EXCEPT ![p].pw = FALSE, ![p].pc = "completed"]
    /\ hist' = [hist EXCEPT ![p].stores = @ + 1]
    /\ ranBefore' = TRUE
    /\ UNCHANGED << cfg, call, wsMux, wsAt, nextUrlId, nextId, posts, ollama, phase, items, urls, matches, wsClients, wsConn, wsReading,
                    lastResp, faults, apiOps, crashed, bcast >>

\* the deferred function, line 246: broadcast "completed"
Completed(p) ==
    /\ Alive
    /\ p \notin wsMux
    /\ run[p].pc = "completed"
    /\ Broadcast("completed", p)
    /\ hist' = [hist EXCEPT ![p].completed = @ + 1]
    /\ run' = [run EXCEPT ![p].pc = "return"]
    /\ UNCHANGED << cfg, call, wsAt, nextUrlId, nextId, posts, ollama, phase, items, urls, matches, workerRunning, lastResp, faults,
                    apiOps, crashed, ranBefore >>

\* runWorker returns to its caller (the scheduler loop, or the goroutine
\* ends); a panic that was not recovered ends the process instead
Return(p) ==
    /\ Alive
    /\ p \notin wsMux
    /\ run[p].pc = "return"
    /\ crashed' = run[p].panicking
    /\ run' = [run EXCEPT ![p] = IdleRun]
    /\ hist' = [hist EXCEPT ![p] = NoHist]
    /\ UNCHANGED << cfg, call, wsMux, wsAt, nextUrlId, nextId, posts, ollama, phase, items, urls, matches, workerRunning, wsClients, wsConn,
                    wsReading, lastResp, faults, apiOps, bcast, ranBefore >>

(***************************************************************************)
(* API requests that change the tables the worker uses                     *)
(***************************************************************************)

CanRequest == apiOps < MaxApiOps

\* DELETE /api/items/{id}: the row, and by ON DELETE CASCADE its matches
DeleteItem(id) ==
    /\ Alive
    /\ CanRequest
    /\ \E i \in items : i.ID = id
    /\ items' = {i \in items : i.ID # id}
    /\ matches' = [k \in MatchKeys |-> IF k.item_id = id THEN 0 ELSE matches[k]]
    /\ apiOps' = apiOps + 1
    /\ UNCHANGED << cfg, call, wsMux, wsAt, nextUrlId, nextId, posts, ollama, phase, urls, workerRunning, run, wsClients, wsConn, wsReading,
                    lastResp, faults, crashed, hist, bcast, ranBefore >>

\* PUT /api/items/{id}: UPDATE items SET text
PutItem(id, text) ==
    /\ Alive
    /\ CanRequest
    /\ \E i \in items : i.ID = id /\ i.Text # text
    /\ items' = {IF i.ID = id THEN [ID |-> id, Text |-> text] ELSE i : i \in items}
    /\ apiOps' = apiOps + 1
    /\ UNCHANGED << cfg, call, wsMux, wsAt, nextUrlId, nextId, posts, ollama, phase, urls, matches, workerRunning, run, wsClients, wsConn,
                    wsReading, lastResp, faults, crashed, hist, bcast, ranBefore >>

\* DELETE /api/matches/{id}: one row
DeleteMatch(key) ==
    /\ Alive
    /\ CanRequest
    /\ matches[key] > 0
    /\ matches' = [matches EXCEPT ![key] = @ - 1]
    /\ apiOps' = apiOps + 1
    /\ UNCHANGED << cfg, call, wsMux, wsAt, nextUrlId, nextId, posts, ollama, phase, items, urls, workerRunning, run, wsClients, wsConn,
                    wsReading, lastResp, faults, crashed, hist, bcast, ranBefore >>

\* POST /api/urls, lines 1072-1102: INSERT INTO urls; the url column is
\* UNIQUE (line 1507), so a second row for a site is an error (500)
PostUrl(site) ==
    /\ Alive
    /\ CanRequest
    /\ nextUrlId <= MaxSites
    /\ apiOps' = apiOps + 1
    /\ IF \E u \in urls : u.Site = site
       THEN UNCHANGED << urls, nextUrlId >>
       ELSE /\ urls' = urls \cup {[ID |-> nextUrlId, Site |-> site]}
            /\ nextUrlId' = nextUrlId + 1
    /\ UNCHANGED << cfg, call, wsMux, wsAt, nextId, posts, ollama, phase, items, matches, workerRunning,
                    run, wsClients, wsConn, wsReading, lastResp, faults, crashed,
                    hist, bcast, ranBefore >>

\* PUT /api/urls/{id}, lines 1119-1164: UPDATE urls SET url, display_name,
\* config; an error (500) if another row has the url
PutUrl(id, site) ==
    /\ Alive
    /\ CanRequest
    /\ \E u \in urls : u.ID = id /\ u.Site # site
    /\ apiOps' = apiOps + 1
    /\ urls' = IF \E u \in urls : u.Site = site
               THEN urls
               ELSE {IF u.ID = id THEN [ID |-> id, Site |-> site] ELSE u : u \in urls}
    /\ UNCHANGED << cfg, call, wsMux, wsAt, nextUrlId, nextId, posts, ollama, phase, items, matches,
                    workerRunning, run, wsClients, wsConn, wsReading, lastResp,
                    faults, crashed, hist, bcast, ranBefore >>

\* DELETE /api/urls/{id}, lines 1166-1172
DeleteUrl(id) ==
    /\ Alive
    /\ CanRequest
    /\ \E u \in urls : u.ID = id
    /\ apiOps' = apiOps + 1
    /\ urls' = {u \in urls : u.ID # id}
    /\ UNCHANGED << cfg, call, wsMux, wsAt, nextUrlId, nextId, posts, ollama, phase, items, matches,
                    workerRunning, run, wsClients, wsConn, wsReading, lastResp,
                    faults, crashed, hist, bcast, ranBefore >>

\* what a POST /api/items request may carry as its text
PostTexts == ItemTexts \cup {<<" ">>}

\* POST /api/items, lines 972-995: the text is trimmed; the request ends
\* with 400 if it is empty and with 409 if SELECT finds a row with this text
PostItemCheck(q, raw) ==
    /\ Alive
    /\ posts[q].pc = "idle"
    /\ LET text == TrimSpace(raw)
       IN  posts' = [posts EXCEPT ![q] =
                IF text = <<>>
                THEN [pc |-> "done", text |-> text, status |-> 400]
                ELSE IF \E i \in items : i.Text = text
                THEN [pc |-> "done", text |-> text, status |-> 409]
                ELSE [pc |-> "insert", text |-> text, status |-> 0]]
    /\ UNCHANGED << cfg, call, wsMux, wsAt, nextUrlId, nextId, ollama, phase, items, urls, matches, workerRunning,
                    run, wsClients, wsConn, wsReading, lastResp, faults, apiOps,
                    crashed, hist, bcast, ranBefore >>

\* POST /api/items, lines 997-1004: INSERT INTO items(text), a statement of
\* its own after the SELECT; 500 if it fails, 201 with the new id otherwise
PostItemInsert(q) ==
    /\ Alive
    /\ posts[q].pc = "insert"
    /\ nextId <= MaxItems
    /\ \E err \in {FALSE} \cup {e \in {TRUE} : CanFail} :
          IF err
          THEN /\ Fail
               /\ posts' = [posts EXCEPT ![q].pc = "done", ![q].status = 500]
               /\ UNCHANGED << items, nextId >>
          ELSE /\ items' = items \cup {[ID |-> nextId, Text |-> posts[q].text]}
               /\ nextId' = nextId + 1
               /\ posts' = [posts EXCEPT ![q].pc = "done", ![q].status = 201]
               /\ UNCHANGED faults
    /\ UNCHANGED << cfg, call, wsMux, wsAt, nextUrlId, ollama, phase, urls, matches, workerRunning, run,
                    wsClients, wsConn, wsReading, lastResp, apiOps, crashed, hist,
                    bcast, ranBefore >>

(***************************************************************************)
(* The LLM server and the end of the process                               *)
(***************************************************************************)

\* the endpoint starts to answer after main stopped looking for it: a child
\* that needed longer than the polls, or a server started by hand
OllamaComesUp ==
    /\ Alive
    /\ ~ollama.up
    /\ ollama.child \in {"none", "running"}
    /\ ollama' = [ollama EXCEPT !.up = TRUE]
    /\ UNCHANGED << cfg, call, wsMux, wsAt, nextUrlId, nextId, posts, phase, items, urls, matches, workerRunning,
                    run, wsClients, wsConn, wsReading, lastResp, faults, apiOps,
                    crashed, hist, bcast, ranBefore >>

\* line 180: SIGINT or SIGTERM ends main's wait on ctx.Done()
Interrupt ==
    /\ Alive
    /\ phase = "serving"
    /\ phase' = "stopping"
    /\ UNCHANGED << cfg, call, wsMux, wsAt, nextUrlId, nextId, posts, ollama, items, urls, matches, workerRunning,
                    run, wsClients, wsConn, wsReading, lastResp, faults, apiOps,
                    crashed, hist, bcast, ranBefore >>

\* lines 184-191: Process.Kill() if ollamaCmd and its Process are set; the
\* killed child is not waited for
StopOllama ==
    /\ Alive
    /\ phase = "stopping"
    /\ phase' = "closing"
    /\ ollama' = IF ollama.cmd /\ ollama.child = "running"
                 THEN [ollama EXCEPT !.child = "signalled", !.up = FALSE]
                 ELSE ollama
    /\ UNCHANGED << cfg, call, wsMux, wsAt, nextUrlId, nextId, posts, items, urls, matches, workerRunning,
                    run, wsClients, wsConn, wsReading, lastResp, faults, apiOps,
                    crashed, hist, bcast, ranBefore >>

\* lines 193-196: server.Shutdown, then main returns and the process ends
Exit ==
    /\ Alive
    /\ phase = "closing"
    /\ phase' = "exited"
    /\ UNCHANGED << cfg, call, wsMux, wsAt, nextUrlId, nextId, posts, ollama, items, urls, matches, workerRunning,
                    run, wsClients, wsConn, wsReading, lastResp, faults, apiOps,
                    crashed, hist, bcast, ranBefore >>

(***************************************************************************)
(* Specifications                                                          *)
(***************************************************************************)

Worker(p) ==
    \/ Gate(p)
    \/ Begin(p)
    \/ LoadItems(p)
    \/ LoadUrls(p)
    \/ StartPlaywright(p)
    \/ NextItem(p)
    \/ NextSite(p)
    \/ NextCand(p)
    \/ InsertMatch(p)
    \/ Notify(p)
    \/ LogItem(p)
    \/ Release(p)
    \/ Completed(p)
    \/ Return(p)
    \/ BroadcastDone(p)

Next ==
    \/ Tick
    \/ triggerWorkerHandler
    \/ \E p \in Procs : Worker(p)
    \/ \E p \in Procs : Panic(p)
    \/ \E c \in Conns : WsConnect(c)
    \/ \E c \in Conns : WsLogCount(c)
    \/ \E c \in Conns : WsPeerGone(c)
    \/ \E c \in Conns : WsHandlerExit(c)
    \/ \E id \in ItemIds : DeleteItem(id)
    \/ \E id \in ItemIds, text \in ItemTexts : PutItem(id, text)
    \/ \E key \in MatchKeys : DeleteMatch(key)
    \/ \E q \in PostReqs, raw \in PostTexts : PostItemCheck(q, raw)
    \/ \E q \in PostReqs : PostItemInsert(q)
    \/ OllamaComesUp
    \/ Interrupt
    \/ StopOllama
    \/ Exit
    \/ \E site \in SiteIds : PostUrl(site)
    \/ \E id \in SiteIds, site \in SiteIds : PutUrl(id, site)
    \/ \E id \in SiteIds : DeleteUrl(id)

Spec == Init /\ [][Next]_vars

\* the triggers and the gate: every goroutine that may call runWorker
NextTriggers ==
    \/ Tick
    \/ triggerWorkerHandler
    \/ \E p \in Procs : Worker(p)
    \/ \E p \in Procs : Panic(p)

SpecTriggers == Init /\ [][NextTriggers]_vars

\* the worker and the requests that change the tables under it
NextStore ==
    \/ Tick
    \/ \E p \in Procs : Worker(p)
    \/ \E p \in Procs : Panic(p)
    \/ \E id \in ItemIds : DeleteItem(id)
    \/ \E id \in ItemIds, text \in ItemTexts : PutItem(id, text)
    \/ \E key \in MatchKeys : DeleteMatch(key)

SpecStore == Init /\ [][NextStore]_vars

\* the worker and the subscribers it broadcasts to
NextFanout ==
    \/ Tick
    \/ \E p \in Procs : Worker(p)
    \/ \E c \in Conns : WsConnect(c)
    \/ \E c \in Conns : WsLogCount(c)
    \/ \E c \in Conns : WsPeerGone(c)
    \/ \E c \in Conns : WsHandlerExit(c)

\* full tables, and no failure other than those of the connections
InitFanout ==
    /\ Boot
    /\ items = InitialItems(MaxItems)
    /\ nextId = MaxItems + 1
    /\ urls = InitialUrls(MaxSites)
    /\ nextUrlId = MaxSites + 1
    /\ ollama = OllamaAtStart(cfg.useEntityMatching, TRUE, TRUE, 1)
    /\ faults = MaxFaults
    /\ apiOps = 0
    /\ call = NoCall

SpecFanout == InitFanout /\ [][NextFanout]_vars

\* successive runs on unchanged inputs: full tables, no request, no failure
InitStable ==
    /\ Boot
    /\ items = InitialItems(MaxItems)
    /\ nextId = MaxItems + 1
    /\ urls = InitialUrls(MaxSites)
    /\ nextUrlId = MaxSites + 1
    /\ ollama = OllamaAtStart(cfg.useEntityMatching, TRUE, TRUE, 1)
    /\ faults = MaxFaults
    /\ apiOps = MaxApiOps
    /\ call = NoCall

NextStable ==
    \/ Tick
    \/ triggerWorkerHandler
    \/ \E p \in Procs : Worker(p)

SpecStable == InitStable /\ [][NextStable]_vars

(***************************************************************************)
(* Properties of the gate and of the triggers                              *)
(***************************************************************************)

\* invocation p holds the flag: it has passed the gate of line 240 and has
\* not yet executed the Store(false) of line 245
InProgress(p) == hist[p].acquired /\ hist[p].stores = 0

C3_ReleaseOnEveryExit ==
    /\ \A p \in Procs :
          /\ hist[p].completed <= hist[p].stores
          /\ hist[p].stores <= 1
          /\ (~hist[p].acquired => hist[p].stores = 0)
          /\ (run[p].pc = "return" =>
                 hist[p].acquired /\ hist[p].stores = 1 /\ hist[p].completed = 1)
    /\ (workerRunning => \E p \in Procs : InProgress(p))

\* a run that panicked has released the flag and broadcast "completed"
C3_Witness ==
    \E p \in Procs :
        /\ run[p].pc = "return"
        /\ run[p].panicking
        /\ hist[p].stores = 1
        /\ hist[p].completed = 1

(***************************************************************************)
(* Properties of the worker's writes                                       *)
(***************************************************************************)

\* the key of the candidate run p handled last
LastKey(p) ==
    [item_id     |-> run[p].items[run[p].it].ID,
     matched_url |-> run[p].results[run[p].r].URL,
     source_site |-> run[p].scrapers[run[p].s]]

\* run p has just come back from an insert for its last candidate
AfterInsert(p) == run[p].pc = "cands" /\ run[p].r > 0 /\ "insert" \in hist[p].steps

\* C4: the matches table never holds two rows with the same item_id,
\* matched_url and source_site
C4_MatchesUnique == \A k \in MatchKeys : matches[k] <= 1

\* an insert found the row of its key already there and added nothing
C4_Witness ==
    \E p \in Procs :
        /\ AfterInsert(p)
        /\ hist[p].last = "dup"
        /\ matches[LastKey(p)] = 1

\* C5: a run adds at most maxMatchesPerItem rows to matches for one item
C5_CapPerItem == \A p \in Procs : hist[p].rowsAdded <= maxMatchesPerItem

\* the cap stopped the item with a site still unvisited
C5_Witness ==
    \E p \in Procs :
        /\ run[p].pc = "log"
        /\ hist[p].rowsAdded = maxMatchesPerItem
        /\ run[p].s < Len(run[p].scrapers)

\* disqualifiedQuality over the titles of the model
Disqualified == [title \in Titles |-> disqualifiedQuality(title)]

\* C6: for a candidate whose title carries a disqualifying quality marker
\* the worker makes no LLM call, computes no fuzzy score, extracts no
\* magnet link and attempts no insert
C6_DisqualifiedSkipped ==
    \A p \in Procs :
        hist[p].title # <<>> /\ Disqualified[hist[p].title] => hist[p].steps = {}

\* a cam rip whose text would pass the pre-filter and the LLM was skipped
C6_Witness ==
    \E p \in Procs :
        /\ hist[p].title = TitleDuneTS
        /\ hist[p].steps = {}
        /\ cfg.useEntityMatching
        /\ run[p].items[run[p].it].Text = Dune2021

\* the LogEntries run p wrote for the item with this id
LogsFor(p, id) == {j \in 1..Len(hist[p].logged) : hist[p].logged[j].ID = id}

\* C7: when a run returns, it has written exactly one LogEntry for each
\* item of its snapshot
C7_OneLogPerItem ==
    \A p \in Procs :
        run[p].pc = "return" =>
            \A i \in 1..Len(hist[p].items) :
                Cardinality(LogsFor(p, hist[p].items[i].ID)) = 1

\* C8: after a broadcast, every subscriber that was registered when it
\* began has been written to, or its connection is closed and it is no
\* longer registered
C8_WrittenOrRemoved ==
    \A c \in bcast.to :
        c \in bcast.ok \/ (c \notin wsClients /\ wsConn[c] = "closed")

\* one broadcast reached one subscriber and dropped another
C8_Witness ==
    \E c, d \in bcast.to :
        /\ c \in bcast.ok
        /\ d \notin bcast.ok
        /\ d \notin wsClients

\* C9: once a run has ended, a later run on the same items, sites and
\* search results leaves the matches table as it is
C9_SecondRunAddsNothing == [][ranBefore => matches' = matches]_vars

\* C10: for the current item, the new_match broadcasts of a run are as many
\* as the rows it added (one is pending between the insert and its
\* broadcast), and its SMS attempts as many as the broadcasts if SMS is
\* configured and none otherwise; an insert that added no row causes neither
C10_NotifyOnlyNewRows ==
    \A p \in Procs :
        /\ hist[p].newMatch =
              IF run[p].pc = "notify" THEN hist[p].rowsAdded - 1 ELSE hist[p].rowsAdded
        /\ hist[p].sms = IF SmsConfigured(cfg) THEN hist[p].newMatch ELSE 0

\* after one new row with its broadcast and SMS, a duplicate caused neither
C10_Witness ==
    \E p \in Procs :
        /\ AfterInsert(p)
        /\ hist[p].last = "dup"
        /\ hist[p].rowsAdded = 1
        /\ hist[p].newMatch = 1
        /\ hist[p].sms = 1

(***************************************************************************)
(* Properties of the candidate filter and of the item loop                 *)
(***************************************************************************)

\* the first entity of the type, as findEntityByType finds it, for the
\* candidate run p handled last
FilmTitleOf(p) == findEntityByType(hist[p].entities, TypeFilmTitle)

YearEntityOf(p) == findEntityByType(hist[p].entities, TypeYear)

\* run p called the LLM for the candidate it handled last
CalledLLM(p) == cfg.useEntityMatching /\ hist[p].llm # "none"

\* the text of the item run p works on
ItemTextOf(p) == run[p].items[run[p].it].Text

\* C11: with entity matching enabled, a candidate for which the extraction
\* returned an entity recognised as the film title is accepted or rejected
\* without the fuzzy scorer being used
C11_EntityDecides ==
    \A p \in Procs :
        CalledLLM(p) /\ FilmTitleOf(p) # <<>> => "fuzzy" \notin hist[p].steps

\* the LLM named another film: rejected, and the scorer was not asked
C11_Witness ==
    \E p \in Procs :
        /\ CalledLLM(p)
        /\ hist[p].llm = "wrongTitle"
        /\ FilmTitleOf(p) # <<>>
        /\ hist[p].steps = {"llm"}

\* C12: an error of a search, an LLM call, a magnet extraction, an insert,
\* an SMS or a log insert does not cut the loops short: unless the run
\* panics, a candidate list is left only at its end or at the cap, an item
\* only after its last site or at the cap, and the loop only after the last
\* item of the snapshot
C12_ErrorsAbsorbed ==
    \A p \in Procs :
        ~run[p].panicking /\ run[p].it > 0 =>
            /\ (run[p].pc \in {"sites", "log"} =>
                   \/ run[p].r = Len(run[p].results)
                   \/ run[p].matchesFound >= maxMatchesPerItem)
            /\ (run[p].pc \in {"log", "items"} =>
                   \/ run[p].s = Len(run[p].scrapers)
                   \/ run[p].matchesFound >= maxMatchesPerItem)
            /\ (run[p].pc \in {"release", "completed", "return"} =>
                   run[p].it = Len(run[p].items))

\* a run whose insert failed for one candidate has gone on to the end of
\* its snapshot and logged every item
C12_Witness ==
    \E p \in Procs :
        /\ run[p].pc = "return"
        /\ "insert" \in hist[p].errors
        /\ run[p].it = MaxItems
        /\ Len(hist[p].logged) = MaxItems
        /\ \E k \in MatchKeys : matches[k] > 0

\* the requests that write the items table
NextItems ==
    \/ \E q \in PostReqs, raw \in PostTexts : PostItemCheck(q, raw)
    \/ \E q \in PostReqs : PostItemInsert(q)
    \/ \E id \in ItemIds, text \in ItemTexts : PutItem(id, text)
    \/ \E id \in ItemIds : DeleteItem(id)

SpecItems == Init /\ [][NextItems]_vars

\* the outcomes of main's start of the LLM server
StartOutcomes ==
    {OllamaAtStart(cfg.useEntityMatching, reachable, startOk, readyAt) :
        reachable \in BOOLEAN, startOk \in BOOLEAN,
        readyAt \in {1, PollBudget, PollBudget + 1}}

\* the whole life of the process: any outcome of the start of the LLM server,
\* runs of the worker, the shutdown; no request, no other failure
InitLifecycle ==
    /\ Boot
    /\ items = InitialItems(MaxItems)
    /\ nextId = MaxItems + 1
    /\ urls = InitialUrls(MaxSites)
    /\ nextUrlId = MaxSites + 1
    /\ ollama \in StartOutcomes
    /\ faults = MaxFaults
    /\ apiOps = MaxApiOps
    /\ call = NoCall

NextLifecycle ==
    \/ Tick
    \/ \E p \in Procs : Worker(p)
    \/ OllamaComesUp
    \/ Interrupt
    \/ StopOllama
    \/ Exit

SpecLifecycle == InitLifecycle /\ [][NextLifecycle]_vars

\* C13: no two items have the same text, whatever POST /api/items and
\* PUT /api/items/{id} requests were made and however they interleaved
C13_TextsUnique ==
    \A i \in items : \A j \in items : i.Text = j.Text => i.ID = j.ID

\* C14: every match row references an existing item
C14_MatchesReferenceItems ==
    \A k \in MatchKeys : matches[k] > 0 => k.item_id \in {i.ID : i \in items}

\* a run that took the item into its snapshot tried to insert a match for
\* it after the item was deleted, and the insert failed
C14_Witness ==
    \E p \in Procs :
        /\ run[p].it > 0
        /\ run[p].items[run[p].it].ID \notin {i.ID : i \in items}
        /\ "insert" \in hist[p].steps
        /\ hist[p].last = "err"
        /\ faults = 0

\* C15: with DISABLE_PLAYWRIGHT=true a run adds no match, makes no LLM
\* call, no magnet extraction and no SMS attempt, and when it returns it
\* has written one LogEntry with success=false for every item
C15_NothingButLogs ==
    \A p \in Procs :
        cfg.disablePW =>
            /\ hist[p].rowsAdded = 0
            /\ hist[p].sms = 0
            /\ hist[p].steps \cap {"llm", "magnet", "insert"} = {}
            /\ (run[p].pc = "return" =>
                   /\ \A i \in items : Cardinality(LogsFor(p, i.ID)) = 1
                   /\ \A j \in 1..Len(hist[p].logged) : ~hist[p].logged[j].success)

\* C16: when a run has finished an item, it has broadcast a new_log event
\* for it: as many events as items finished, also after a failed insertLog
C16_AlwaysNewLog ==
    \A p \in Procs :
        run[p].pc = "items" /\ ~run[p].panicking =>
            hist[p].logEvents = run[p].it

\* C17: after startOllama failed at startup no worker run makes an LLM
\* extraction call, and none lets extracted entities decide a candidate
C17_NoEntityMatchingAfterFailedStart ==
    ollama.err =>
        \A p \in Procs : hist[p].llm = "none" /\ "llm" \notin hist[p].steps

\* C18: when the process has exited after an orderly shutdown, a child the
\* supervisor spawned has been signalled and reaped
C18_ChildReaped ==
    phase = "exited" /\ ollama.cmd /\ ollama.child # "none" =>
        ollama.child = "reaped"

\* C21: after a magnet extraction that failed or found no link, the insert
\* follows; a row it adds has an empty magnet field, is counted toward
\* the cap and is broadcast as a new match
C21_EmptyMagnetStillStored ==
    \A p \in Procs :
        hist[p].magnet = "empty" /\ ~run[p].panicking =>
            \/ run[p].pc = "insert"
            \/ /\ "insert" \in hist[p].steps
               /\ hist[p].last = "new" =>
                      /\ hist[p].stored = "empty"
                      /\ run[p].matchesFound = hist[p].rowsAdded
                      /\ (run[p].pc = "notify" \/ hist[p].newMatch = hist[p].rowsAdded)

\* a match whose detail page gave no magnet link was stored and broadcast
C21_Witness ==
    \E p \in Procs :
        /\ hist[p].magnet = "empty"
        /\ hist[p].last = "new"
        /\ hist[p].stored = "empty"
        /\ hist[p].newMatch = 1
        /\ run[p].matchesFound = 1

\* the LogEntry run p wrote last is the one of the item it is at
LoggedCurrentItem(p) ==
    /\ run[p].it > 0
    /\ Len(hist[p].logged) > 0
    /\ hist[p].logged[Len(hist[p].logged)].ID = run[p].items[run[p].it].ID

\* C22: the LogEntry of an item has success=true exactly if the run added
\* at least one row to matches for that item; rows that were there before
\* do not count
C22_SuccessMeansNewRow ==
    \A p \in Procs :
        LoggedCurrentItem(p) =>
            (hist[p].logged[Len(hist[p].logged)].success <=> hist[p].rowsAdded > 0)

\* an item whose only qualifying candidate was stored by an earlier run is
\* logged with success=false
C22_Witness ==
    \E p \in Procs :
        /\ LoggedCurrentItem(p)
        /\ ~hist[p].logged[Len(hist[p].logged)].success
        /\ hist[p].last = "dup"
        /\ \E k \in MatchKeys :
              k.item_id = run[p].items[run[p].it].ID /\ matches[k] > 0

\* a run with the API requests that write the tables it took its snapshots
\* of: one site row at the start, so that a site can be added and a row
\* can be pointed at another site
InitSnapshot ==
    /\ Boot
    /\ items = InitialItems(MaxItems)
    /\ nextId = MaxItems + 1
    /\ urls = InitialUrls(1)
    /\ nextUrlId = 2
    /\ ollama = OllamaAtStart(cfg.useEntityMatching, TRUE, TRUE, 1)
    /\ faults = MaxFaults
    /\ apiOps = 0
    /\ call = NoCall

NextSnapshot ==
    \/ Tick
    \/ \E p \in Procs : Worker(p)
    \/ \E id \in ItemIds : DeleteItem(id)
    \/ \E id \in ItemIds, text \in ItemTexts : PutItem(id, text)
    \/ \E site \in SiteIds : PostUrl(site)
    \/ \E id \in SiteIds, site \in SiteIds : PutUrl(id, site)
    \/ \E id \in SiteIds : DeleteUrl(id)

SpecSnapshot == InitSnapshot /\ [][NextSnapshot]_vars

\* run p has loaded its items and sites and has not yet left the item loop
InItemLoop(p) ==
    run[p].pc \in {"items", "sites", "cands", "insert", "notify", "log"}

\* C23: a run reads the items and the sites once, before the item loop;
\* what it iterates over is what these two reads returned, whatever the
\* API has since written to the tables
C23_SnapshotsNotReread ==
    \A p \in Procs :
        InItemLoop(p) =>
            /\ hist[p].itemReads = 1
            /\ hist[p].urlReads = 1
            /\ run[p].items = hist[p].items
            /\ run[p].scrapers = hist[p].scrapers

\* a run logs its last item while the label of an item it holds has been
\* edited in the table
C23_Witness ==
    \E p \in Procs :
        /\ run[p].pc = "log"
        /\ run[p].it = Len(run[p].items)
        /\ run[p].items # SortById(items)
        /\ Cardinality(items) = Len(run[p].items)
        /\ run[p].items = hist[p].items

\* the rows are in strictly ascending id
Ascending(rows) ==
    \A i \in 1..Len(rows) : \A j \in 1..Len(rows) : i < j => rows[i].ID < rows[j].ID

\* the position of x in the sequence seq (0 if it is not there)
PositionIn(seq, x) ==
    IF \E i \in 1..Len(seq) : seq[i] = x
    THEN CHOOSE i \in 1..Len(seq) : seq[i] = x
    ELSE 0

IsSearch(e) == e.op = "search"

\* the sites run p has searched for its current item, in order
SearchedSites(p) ==
    LET searches == SelectSeq(hist[p].trace, IsSearch)
    IN  [i \in 1..Len(searches) |-> searches[i].site]

\* call e comes no later than call f in the order of sites and, within a
\* site, of the candidates its search returned
InLoopOrder(p, e, f) ==
    LET se == PositionIn(hist[p].scrapers, e.site)
        sf == PositionIn(hist[p].scrapers, f.site)
    IN  /\ se > 0
        /\ sf > 0
        /\ \/ se < sf
           \/ /\ se = sf
              /\ PositionIn(SiteListing(e.site), e.cand)
                     <= PositionIn(SiteListing(f.site), f.cand)

\* C24: a run takes the items in ascending id, for each item the sites in
\* ascending id and for each site the candidates in the order of the
\* search result, and it starts an item only after it has reached the
\* LogEntry step of the item before
C24_LoopOrder ==
    \A p \in Procs :
        /\ Ascending(hist[p].items)
        /\ Ascending(hist[p].urlRows)
        /\ hist[p].scrapers = [i \in 1..Len(hist[p].urlRows) |-> hist[p].urlRows[i].Site]
        /\ Len(hist[p].visited) <= Len(hist[p].items)
        /\ \A i \in 1..Len(hist[p].visited) : hist[p].visited[i] = hist[p].items[i].ID
        /\ Len(SearchedSites(p)) <= Len(hist[p].scrapers)
        /\ \A i \in 1..Len(SearchedSites(p)) : SearchedSites(p)[i] = hist[p].scrapers[i]
        /\ \A i \in 1..Len(hist[p].trace) : \A j \in 1..Len(hist[p].trace) :
              i < j => InLoopOrder(p, hist[p].trace[i], hist[p].trace[j])
        /\ Len(hist[p].visited) <= hist[p].logSteps + 1
        /\ run[p].pc = "items" => hist[p].logSteps = Len(hist[p].visited)

\* a run at the LogEntry step of its second item, after both sites and
\* calls for at least two candidates
C24_Witness ==
    \E p \in Procs :
        /\ run[p].pc = "log"
        /\ hist[p].visited = <<1, 2>>
        /\ hist[p].logSteps = 1
        /\ SearchedSites(p) = <<1, 2>>
        /\ \E i \in 1..Len(hist[p].trace) : \E j \in 1..Len(hist[p].trace) :
              /\ i < j
              /\ hist[p].trace[i].cand # NoCand
              /\ hist[p].trace[j].cand # NoCand
              /\ hist[p].trace[i].cand # hist[p].trace[j].cand

\* C25: every site search, LLM call, magnet extraction and insert a run
\* makes for an item is made while fewer than 5 matches have been inserted
\* for that item in the run
C25_NothingAfterCap ==
    \A p \in Procs :
        \A i \in 1..Len(hist[p].trace) : hist[p].trace[i].n < maxMatchesPerItem

\* the fifth match of an item came from the first site; the run is at the
\* item's LogEntry step and has not searched the second site
C25_Witness ==
    \E p \in Procs :
        /\ run[p].pc = "log"
        /\ run[p].matchesFound = maxMatchesPerItem
        /\ hist[p].rowsAdded = maxMatchesPerItem
        /\ Len(hist[p].scrapers) = MaxSites
        /\ SearchedSites(p) = <<1>>

\* the item's label without its year occurs as a contiguous phrase in the
\* normalized title, over the texts and titles of the model
PhraseFound == [t \in ItemTexts, title \in Titles |-> PreFilterPasses(t, title)]

IsLLMCall(e) == e.op = "llm"

\* C26: an LLM extraction call is made for a candidate only with entity
\* matching enabled, a title that is not disqualified and the item's
\* year-stripped label found as a phrase in it; and at most once per
\* candidate of a site's result list for an item
C26_LLMCallsGuarded ==
    \A p \in Procs :
        LET calls == SelectSeq(hist[p].trace, IsLLMCall)
        IN  /\ \A i \in 1..Len(calls) :
                  /\ cfg.useEntityMatching
                  /\ ~Disqualified[calls[i].cand.Title]
                  /\ PhraseFound[ItemTextOf(p), calls[i].cand.Title]
            /\ \A i \in 1..Len(calls) : \A j \in 1..Len(calls) :
                  calls[i].site = calls[j].site /\ calls[i].cand = calls[j].cand => i = j

\* an item both sites were searched for: one LLM call for each candidate
\* that passed the gate and the pre-filter, none for the others
C26_Witness ==
    \E p \in Procs :
        LET calls == SelectSeq(hist[p].trace, IsLLMCall)
        IN  /\ run[p].pc = "log"
            /\ ItemTextOf(p) = Heat
            /\ SearchedSites(p) = <<1, 2>>
            /\ Len(calls) = 1
            /\ calls[1].cand.Title = TitleHeat

\* the answer of the filter for the candidate run p handled last
Confirmed(p) ==
    FilterTable[ItemTextOf(p), hist[p].title, cfg,
                IF hist[p].llm = "none" THEN "entities" ELSE hist[p].llm].matched

\* C27: the magnet extraction is called only for a candidate the filter
\* confirmed, once for it, and the next call after it is the insert of that
\* candidate; every insert has its magnet extraction right before it; a
\* search is a call with no candidate
C27_MagnetOnlyForMatches ==
    \A p \in Procs :
        LET t == hist[p].trace
        IN  /\ hist[p].title # <<>> /\ "magnet" \in hist[p].steps => Confirmed(p)
            /\ \A i \in 1..Len(t) :
                  /\ t[i].op = "search" => t[i].cand = NoCand
                  /\ t[i].op = "magnet" =>
                        /\ IF i = Len(t)
                           THEN run[p].pc = "insert" \/ run[p].panicking
                           ELSE /\ t[i + 1].op = "insert"
                                /\ t[i + 1].site = t[i].site
                                /\ t[i + 1].cand = t[i].cand
                        /\ \A j \in 1..Len(t) :
                              /\ t[j].op = "magnet"
                              /\ t[j].site = t[i].site
                              /\ t[j].cand = t[i].cand
                              => i = j
                  /\ t[i].op = "insert" =>
                        /\ i > 1
                        /\ t[i - 1].op = "magnet"
                        /\ t[i - 1].site = t[i].site
                        /\ t[i - 1].cand = t[i].cand

\* an item with a candidate that was rejected after its LLM call and one
\* that was confirmed: one magnet extraction, followed by the insert
C27_Witness ==
    \E p \in Procs :
        LET t == hist[p].trace
        IN  /\ Len(t) >= 4
            /\ \E i \in 1..Len(t) - 2 :
                  /\ t[i].op = "llm"
                  /\ t[i + 1].op = "llm"
                  /\ t[i + 2].op = "magnet"
                  /\ t[Len(t)].op = "insert"
            /\ Cardinality({i \in 1..Len(t) : t[i].op = "magnet"}) = 1

TwilioSettings == {"sid", "tok", "from", "to"}

\* each of the four settings has a character that is not white space
AllFourNonBlank ==
    \A k \in TwilioSettings :
        \E i \in 1..Len(cfg.twilio[k]) : ~IsSpace(cfg.twilio[k][i])

\* each of the four settings has a character
AllFourNonEmpty == \A k \in TwilioSettings : cfg.twilio[k] # <<>>

\* the step of run p in which an SMS attempt fails
SmsFails(p) == Len(hist'[p].smsFailed) = Len(hist[p].smsFailed) + 1

\* a failed SMS attempt changes no row and not the item's match count, and
\* the run goes on: to the next candidate, or to the cap test of the site
\* loop once the count is 5
SmsErrorKeepsMatch ==
    \A p \in Procs :
        SmsFails(p) =>
            /\ matches' = matches
            /\ run[p].matchesFound >= 1
            /\ run'[p].matchesFound = run[p].matchesFound
            /\ ~run'[p].panicking
            /\ run'[p].pc = IF run[p].matchesFound >= maxMatchesPerItem
                            THEN "sites" ELSE "cands"

\* the SMS attempts of the current item are as many as its new matches if the
\* condition holds and none otherwise
AttemptsIff(condition) ==
    \A p \in Procs :
        hist[p].sms = IF condition THEN hist[p].newMatch ELSE 0

\* C28 (as the code has it): an SMS is attempted for a newly inserted match
\* if and only if all four SMS settings are non-empty after white space is
\* trimmed from them; a failed attempt leaves the inserted row in place and
\* the item's match count incremented, and the run continues
C28_SmsIffConfigured ==
    /\ [] AttemptsIff(AllFourNonBlank)
    /\ [][SmsErrorKeepsMatch]_vars

\* C28 as stated: the same with "non-empty" for the settings as they are
C28_SmsIffNonEmpty ==
    /\ [] AttemptsIff(AllFourNonEmpty)
    /\ [][SmsErrorKeepsMatch]_vars

\* the SMS of the item's first match failed, and a second match was stored
\* and notified after it
C28_Witness ==
    \E p \in Procs :
        /\ hist[p].smsFailed = <<1>>
        /\ hist[p].sms = 2
        /\ hist[p].newMatch = 2
        /\ run[p].matchesFound = 2

\* the subscriber's handler has returned or a write to it has failed
Dropped(c) == wsConn[c] = "closed"

\* C29: a subscriber is registered from the time it connects until its
\* handler returns on the disconnect or a broadcast fails to write to it;
\* from then on it is not registered, no broadcast writes to it, and no step
\* registers it again
C29_RegisteredUntilDropped ==
    /\ [] \A c \in Conns :
            /\ wsConn[c] = "idle" => c \notin wsClients
            /\ wsConn[c] = "open" => c \in wsClients
            /\ wsConn[c] = "gone" /\ c \in wsReading => c \in wsClients
            /\ Dropped(c) => c \notin wsClients
    /\ [][\A c \in Conns :
            /\ Dropped(c) =>
                  /\ Dropped(c)'
                  /\ c \notin wsClients'
                  /\ bcast' # bcast => c \notin bcast'.to
            /\ c \in wsClients' \ wsClients => wsConn[c] = "idle"]_vars

\* a subscriber was dropped by a failed write, and a later broadcast reached
\* the other subscriber without writing to it
C29_Witness ==
    \E c, d \in Conns :
        /\ Dropped(c)
        /\ c \in wsReading
        /\ c \notin bcast.to
        /\ d \in bcast.ok

\* C30: an invocation of runWorker that a trigger request started passes the
\* gate if the request was answered triggered, and an invocation the gate
\* turns away was answered already_running
C30_AnswerMatchesGate ==
    [][\A g \in Procs \ {Scheduler} :
          run[g].pc = "cas" /\ run'[g] # run[g] =>
              IF run[g].reported = "triggered"
              THEN run'[g].pc = "begin" /\ hist'[g].acquired /\ workerRunning'
              ELSE run[g].reported = "already_running"]_vars

\* the subscriber of the first connection
Subscriber == 1

\* the scheduler and the trigger requests, after the first connection has
\* subscribed and before the first run; no subscriber leaves
InitEvents ==
    /\ cfg \in Configs
    /\ matches = [k \in MatchKeys |-> 0]
    /\ workerRunning = FALSE
    /\ run = [p \in Procs |-> IdleRun]
    /\ wsClients = {Subscriber}
    /\ wsConn = [c \in Conns |-> IF c = Subscriber THEN "open" ELSE "idle"]
    /\ wsReading = {Subscriber}
    /\ wsMux = {}
    /\ wsAt = [c \in Conns |-> "none"]
    /\ lastResp = "none"
    /\ crashed = FALSE
    /\ hist = [p \in Procs |-> NoHist]
    /\ bcast = NoBcast
    /\ ranBefore = FALSE
    /\ posts = [q \in PostReqs |-> NoPost]
    /\ phase = "serving"
    /\ items = InitialItems(MaxItems)
    /\ nextId = MaxItems + 1
    /\ urls = InitialUrls(MaxSites)
    /\ nextUrlId = MaxSites + 1
    /\ ollama = OllamaAtStart(cfg.useEntityMatching, TRUE, TRUE, 1)
    /\ faults = MaxFaults
    /\ apiOps = 0
    /\ call = NoCall

NextEvents ==
    \/ Tick
    \/ triggerWorkerHandler
    \/ \E p \in Procs : Worker(p)
    \/ \E c \in Conns : WsConnect(c)
    \/ \E c \in Conns : WsLogCount(c)

SpecEvents == InitEvents /\ [][NextEvents]_vars

\* the subscriber is registered and every broadcast so far has reached it
Throughout == Subscriber \in wsClients /\ wsConn[Subscriber] = "open"

\* the step in which run p broadcasts an event of the type
Sends(p, type) ==
    /\ Subscriber \in bcast'.ok
    /\ \/ type = "running" /\ run[p].pc = "begin" /\ run'[p].pc # "begin"
       \/ type = "completed" /\ run[p].pc = "completed" /\ run'[p].pc # "completed"
       \/ type = "new_match" /\ run[p].pc = "notify" /\ run'[p].pc # "notify"
       \/ type = "new_log" /\ run[p].pc = "log" /\ run'[p].pc # "log"

\* run p holds the flag and has sent its running event
Announced(p) == InProgress(p) /\ run[p].pc # "begin"

\* C31: for a subscriber connected throughout, the worker_status events
\* alternate running, completed, running, ...; a new_match or new_log event
\* comes after the running event of its run and before any other
\* worker_status event; and while the latest worker_status event is completed
\* no run that has sent its running event holds the flag
C31_StatusAlternates ==
    /\ [] (Throughout /\ bcast.status = "completed" =>
              \A p \in Procs : ~Announced(p))
    /\ [][\A p \in Procs :
            /\ Sends(p, "running") => bcast.status \in {"none", "completed"}
            /\ Sends(p, "completed") => bcast.status = "running" /\ bcast.by = p
            /\ Sends(p, "new_match") \/ Sends(p, "new_log") =>
                  bcast.status = "running" /\ bcast.by = p]_vars

\* the step in which the handler of connection c reads or writes wsClients:
\* the insert of line 1384, the delete of line 1392, the len of lines 1387
\* and 1395
HandlerAccess(c) == wsAt'[c] # wsAt[c]

\* C32: no handler reads or writes the subscriber set while a broadcast holds
\* the mutex, that is, between its Lock and its Unlock
C32_AccessUnderMutex ==
    [][\A c \in Conns : HandlerAccess(c) => wsMux = {}]_vars

\* runs on full tables in which every call returns without an error and
\* every goroutine that can take a step eventually takes one
SpecRuns ==
    /\ InitStable
    /\ [][NextStable]_vars
    /\ \A p \in Procs : WF_vars(Worker(p))

\* the calls of the kind that run p has made for its current item
CallsOf(p, op) == Cardinality({i \in 1..Len(hist[p].trace) : hist[p].trace[i].op = op})

\* the steps of run p so far are bounded by its snapshot and the listings:
\* no more items started than were read, no more log steps than items, no
\* more searches per item than sites, no more calls of a kind per item than
\* candidates the searches returned
BoundedBySnapshot(p) ==
    /\ Len(hist[p].visited) <= Len(hist[p].items)
    /\ hist[p].logSteps <= Len(hist[p].visited)
    /\ CallsOf(p, "search") <= Len(hist[p].scrapers)
    /\ \A op \in {"llm", "magnet", "insert"} :
          CallsOf(p, op) <= CallsOf(p, "search") * MaxCands

C34_MagnetCallsCapped ==
    \A p \in Procs : CallsOf(p, "magnet") <= maxMatchesPerItem

\* C35: the LLM server is spawned at most once, and only after the first
\* probe failed; the polls that follow a successful spawn end at the first
\* one that is answered, with success, or after the 30th, with an error;
\* there are never more than 30 of them, and none without a spawn
C35_SpawnOnceAndPollThirty ==
    /\ ollama.spawns <= 1
    /\ ollama.spawns = 1 => ~ollama.probe /\ cfg.useEntityMatching
    /\ cfg.useEntityMatching /\ ~ollama.probe => ollama.spawns = 1
    /\ ollama.polls <= PollBudget
    /\ ~ollama.started => ollama.polls = 0
    /\ ollama.started =>
          IF ollama.readyAt <= PollBudget
          THEN ollama.polls = ollama.readyAt /\ ~ollama.err
          ELSE ollama.polls = PollBudget /\ ollama.err

\* the server was spawned and answered none of the 30 polls, and the process
\* has gone on to run the worker
C35_Witness ==
    /\ ollama.spawns = 1
    /\ ollama.started
    /\ ollama.polls = PollBudget
    /\ ollama.err
    /\ \E p \in Procs : hist[p].acquired

\* a request is being served: the only thing server.Shutdown waits for, up
\* to its 10 seconds
RequestActive == \E q \in PostReqs : posts[q].pc # "idle"

\* C36: the process does not exit after a shutdown signal while a worker run
\* is in flight, unless the drain of 10 seconds was used up
C36_RunOutlivesShutdown ==
    phase = "exited" => (\A p \in Procs : ~InProgress(p)) \/ RequestActive

(***************************************************************************)
(* GenericScraper.Search: the links of the result page that become         *)
(* candidates (lines 1777-1853)                                            *)
(***************************************************************************)

\* a character outside ASCII, of three bytes in UTF-8 (one element of a string)
WideChar == "U+5922"

\* len(text): the bytes of a string
RECURSIVE ByteLen(_)
ByteLen(s) ==
    IF s = <<>> THEN 0
    ELSE (IF Head(s) = WideChar THEN 3 ELSE 1) + ByteLen(Tail(s))

IsLetter(c) == c \in SetOf(LowerChars) \/ c \in SetOf(UpperChars)

IsHex(c) == IsDigit(c) \/ c \in {"a","b","c","d","e","f","A","B","C","D","E","F"}

\* net/url getScheme: the index of the colon that ends the scheme, 0 if the
\* string has no scheme, -1 for "missing protocol scheme"
RECURSIVE getScheme(_, _)
getScheme(s, i) ==
    IF i > Len(s) THEN 0
    ELSE IF s[i] = ":" THEN (IF i = 1 THEN -1 ELSE i)
    ELSE IF IsLetter(s[i]) THEN getScheme(s, i + 1)
    ELSE IF IsDigit(s[i]) \/ s[i] \in {"+", "-", "."}
    THEN (IF i = 1 THEN 0 ELSE getScheme(s, i + 1))
    ELSE 0

\* the first index from i on at which s has the character, or Len(s) + 1
RECURSIVE IndexFrom(_, _, _)
IndexFrom(s, c, i) ==
    IF i > Len(s) \/ s[i] = c THEN i ELSE IndexFrom(s, c, i + 1)

\* a "%" that is not followed by two hexadecimal digits
BadEscape(s) ==
    \E i \in 1..Len(s) :
        /\ s[i] = "%"
        /\ ~(i + 2 <= Len(s) /\ IsHex(s[i + 1]) /\ IsHex(s[i + 2]))

\* url.Parse, for the URLs of the model: scheme, host and path, or an error
urlParse(s) ==
    LET k    == getScheme(s, 1)
        rest == IF k > 0 THEN SubSeq(s, k + 1, Len(s)) ELSE s
        auth == HasPrefix(rest, <<"/", "/">>)
        e    == IF auth THEN IndexFrom(rest, "/", 3) ELSE 1
        host == IF auth THEN SubSeq(rest, 3, e - 1) ELSE <<>>
        path == SubSeq(rest, e, Len(rest))
        seg  == SubSeq(path, 1, IndexFrom(path, "/", 1) - 1)
    IN  [err |-> \/ k = -1
                 \/ BadEscape(rest)
                 \/ \E i \in 1..Len(host) : IsSpace(host[i])
                 \/ k = 0 /\ ~auth /\ ":" \in SetOf(seg),
         Scheme |-> IF k > 0 THEN ToLower(SubSeq(s, 1, k - 1)) ELSE <<>>,
         auth |-> auth, Host |-> host, Path |-> path]

\* the path as URL.String() writes it: a space becomes %20
RECURSIVE EscapedPath(_)
EscapedPath(path) ==
    IF path = <<>> THEN <<>>
    ELSE (IF Head(path) = " " THEN <<"%", "2", "0">> ELSE <<Head(path)>>)
         \o EscapedPath(Tail(path))

\* URL.String()
urlString(u) ==
    (IF u.Scheme # <<>> THEN u.Scheme \o <<":">> ELSE <<>>)
    \o (IF u.auth THEN <<"/", "/">> \o u.Host ELSE <<>>)
    \o EscapedPath(u.Path)

\* lines 1799-1805: the link texts that are skipped as navigation
IsNavigationText(text) ==
    LET lowerText == ToLower(text)
    IN  \/ lowerText \in {<<"h","o","m","e">>, <<"l","o","g","i","n">>, <<"r","e","g","i","s","t","e","r">>, <<"a","b","o","u","t">>, <<"c","o","n","t","a","c","t">>,
                          <<"p","r","i","v","a","c","y">>, <<"t","e","r","m","s"," ","o","f"," ","s","e","r","v","i","c","e">>, <<"d","m","c","a">>}
        \/ HasPrefix(lowerText, <<"p","a","g","e"," ">>)

\* line 1808: strings.HasPrefix(href, "http")
StartsWithHttp(href) == HasPrefix(href, <<"h","t","t","p">>)

\* lines 1777-1835: the first pass over the links of the result page; a link
\* is [Href, Text], base is s.URL, seen the hrefs cached so far
RECURSIVE CacheLinks(_, _, _)
CacheLinks(links, base, seen) ==
    IF links = <<>> THEN <<>>
    ELSE LET link == Head(links)
             text == TrimSpace(link.Text)
             b    == urlParse(base)
             href == IF StartsWithHttp(link.Href) THEN link.Href
                     ELSE b.Scheme \o <<":", "/", "/">> \o b.Host \o link.Href
             u    == urlParse(href)
             skip == \/ link.Href = <<>>
                     \/ link.Text = <<>>
                     \/ ByteLen(text) < 10
                     \/ IsNavigationText(text)
                     \/ ~StartsWithHttp(link.Href) /\ ~HasPrefix(link.Href, <<"/">>)
                     \/ u.err
                     \/ urlString(u) \in seen
         IN  IF skip THEN CacheLinks(Tail(links), base, seen)
             ELSE <<[Title |-> text, URL |-> urlString(u)]>>
                  \o CacheLinks(Tail(links), base, seen \cup {urlString(u)})

\* lines 1839-1853: the results are the cached links, in their order
Search(links, base) == CacheLinks(links, base, {})

\* the hrefs and link texts of the result pages of the model
PageHrefs ==
    { <<"h","t","t","p",":","/","/","a","/","1">>, <<"/","1">>, <<"t","/","1">>, <<"h","t","t","p",".","h","t","m","l">>, <<"h","t","t","p",":","/","/","a","/","%","z","z">>, <<"h","t","t","p",":","/","/","a","/","b"," ","c">>, <<>> }

PageTexts ==
    { <<"D","u","n","e",".","2","0","2","1",".","x","2","6","4">>, <<"H","o","m","e">>, <<"P","a","g","e"," ","2"," ","o","f"," ","1","0">>, <<"T","e","r","m","s"," ","o","f"," ","S","e","r","v","i","c","e">>, <<" "," ","H","e","a","t",".","1","9","9","5"," ">>,
      <<WideChar, WideChar, WideChar, WideChar>> }

PageLinks == {[Href |-> h, Text |-> t] : h \in PageHrefs, t \in PageTexts}

\* the most links on a result page
MaxLinks == 2

Pages == UNION {[1..n -> PageLinks] : n \in 0..MaxLinks}

BaseURL == <<"h","t","t","p",":","/","/","a">>

\* no table row, no run and no request: only the function called is stepped
InitCall(calls) ==
    /\ Boot
    /\ items = InitialItems(0)
    /\ nextId = 1
    /\ urls = InitialUrls(0)
    /\ nextUrlId = 1
    /\ ollama = OllamaAtStart(cfg.useEntityMatching, TRUE, TRUE, 1)
    /\ faults = MaxFaults
    /\ apiOps = MaxApiOps
    /\ call \in calls

\* the variables a call on its own leaves alone
OnlyCall ==
    UNCHANGED << cfg, wsMux, wsAt, nextUrlId, nextId, posts, ollama, phase, items, urls,
                 matches, workerRunning, run, wsClients, wsConn, wsReading, lastResp,
                 faults, apiOps, crashed, hist, bcast, ranBefore >>

\* s.Search returns
SearchReturns ==
    /\ call.fn = "Search"
    /\ ~call.done
    /\ call' = [call EXCEPT !.out = Search(call.in, BaseURL), !.done = TRUE]
    /\ OnlyCall

InitSearch ==
    InitCall({[fn |-> "Search", in |-> page, out |-> <<>>, done |-> FALSE] : page \in Pages})

SpecSearch == InitSearch /\ [][SearchReturns]_vars

\* the URL has a scheme of letters, "://" and a host
LooksAbsolute(u) ==
    \E k \in 2..Len(u) :
        /\ HasPrefixAt(u, <<":", "/", "/">>, k)
        /\ \A i \in 1..(k - 1) : IsLetter(u[i])
        /\ Len(u) >= k + 3
        /\ u[k + 3] # "/"

\* link texts that are navigation: the listed words, and "page N"
IsBoilerplate(title) ==
    LET t == ToLower(title)
    IN  \/ t \in {<<"h","o","m","e">>, <<"l","o","g","i","n">>, <<"r","e","g","i","s","t","e","r">>, <<"a","b","o","u","t">>, <<"c","o","n","t","a","c","t">>, <<"p","r","i","v","a","c","y">>,
                  <<"t","e","r","m","s">>, <<"d","m","c","a">>}
        \/ HasPrefix(t, <<"p","a","g","e"," ">>) /\ Len(t) > 5 /\ IsDigit(t[6])

\* C37: every candidate of a search has a title of at least 10 characters
\* that is not navigation text and an absolute URL, and no two candidates of
\* the search have the same URL
C37_CandidatesWellFormed ==
    call.fn = "Search" /\ call.done =>
        /\ \A i \in 1..Len(call.out) :
              /\ Len(call.out[i].Title) >= 10
              /\ ~IsBoilerplate(call.out[i].Title)
              /\ LooksAbsolute(call.out[i].URL)
        /\ \A i \in 1..Len(call.out) : \A j \in 1..Len(call.out) :
              call.out[i].URL = call.out[j].URL => i = j

(***************************************************************************)
(* extractMagnetLinkFromURL: the three locators of the detail page and the *)
(* order in which their results are tried (lines 1857-1965)                *)
(***************************************************************************)

MagnetScheme == <<"m","a","g","n","e","t",":">>

Anchor(text, href) == [text |-> text, href |-> href]

\* the answer of GetAttribute("href") for the first element that matches: the
\* attribute, or an error when no element matches before the timeout
NoElement == [err |-> TRUE, href |-> <<>>]

\* Locator.First(): the first of the matching elements, in document order
First(anchors, matching) ==
    IF matching = {} THEN NoElement
    ELSE [err |-> FALSE,
          href |-> anchors[CHOOSE i \in matching : \A j \in matching : i <= j].href]


\* a:has-text('...'): the text contains the words, whatever the case
HasText(a, words) == Contains(ToLower(a.text), ToLower(words))

\* line 1913: a:has-text('Magnet Link'), a:has-text('Magnet Download'),
\* a[href^='magnet:']
MagnetLocator(a) ==
    \/ HasText(a, <<"M","a","g","n","e","t"," ","L","i","n","k">>)
    \/ HasText(a, <<"M","a","g","n","e","t"," ","D","o","w","n","l","o","a","d">>)
    \/ HasPrefix(a.href, MagnetScheme)

\* line 1923: a[href*='keepshare.org']
KeepshareLocator(a) == Contains(a.href, <<"k","e","e","p","s","h","a","r","e",".","o","r","g">>)

\* line 1943: a[href*='magnet:']
AnyMagnetLocator(a) == Contains(a.href, MagnetScheme)

\* strings.Index: the first index at which s has sub, 0 if it has not
Index(s, sub) ==
    IF Contains(s, sub)
    THEN CHOOSE i \in 1..(Len(s) + 1) :
            /\ HasPrefixAt(s, sub, i)
            /\ \A j \in 1..(i - 1) : ~HasPrefixAt(s, sub, j)
    ELSE 0

\* strings.Split(s, sep): the parts of s between the occurrences of sep
RECURSIVE Split(_, _)
Split(s, sep) ==
    LET i == Index(s, sep)
    IN  IF i = 0 THEN << s >>
        ELSE << SubSeq(s, 1, i - 1) >> \o Split(SubSeq(s, i + Len(sep), Len(s)), sep)

\* the character of an escape %XY, for the escapes of the model's pages
Unhex(x, y) ==
    CASE << x, y >> \in {<< "3", "F" >>, << "3", "f" >>} -> "?"
      [] << x, y >> \in {<< "3", "A" >>, << "3", "a" >>} -> ":"
      [] << x, y >> = << "2", "0" >> -> " "
      [] OTHER -> "U+FFFD"

RECURSIVE Unescaped(_)
Unescaped(s) ==
    IF s = <<>> THEN <<>>
    ELSE IF Head(s) = "%" THEN << Unhex(s[2], s[3]) >> \o Unescaped(SubSeq(s, 4, Len(s)))
    ELSE IF Head(s) = "+" THEN << " " >> \o Unescaped(Tail(s))
    ELSE << Head(s) >> \o Unescaped(Tail(s))

\* url.QueryUnescape: an error and the empty string for a bad escape
QueryUnescape(s) ==
    IF BadEscape(s) THEN [err |-> TRUE, s |-> <<>>]
    ELSE [err |-> FALSE, s |-> Unescaped(s)]

\* lines 1913-1920: the direct link, <<>> if this strategy produces nothing
DirectLink(anchors) ==
    LET got == First(anchors, {i \in 1..Len(anchors) : MagnetLocator(anchors[i])})
    IN  IF ~got.err /\ got.href # <<>> /\ HasPrefix(got.href, MagnetScheme)
        THEN got.href
        ELSE <<>>

\* lines 1922-1940: the link encoded in the path of a keepshare.org link
GatewayLink(anchors) ==
    LET got   == First(anchors, {i \in 1..Len(anchors) : KeepshareLocator(anchors[i])})
        parts == Split(got.href, << "/" >> \o MagnetScheme)
        dec   == QueryUnescape(MagnetScheme \o parts[2])
    IN  IF ~got.err /\ got.href # <<>> /\ Contains(got.href, MagnetScheme)
           /\ Len(parts) >= 2 /\ ~dec.err /\ dec.s # <<>>
        THEN dec.s
        ELSE <<>>

\* lines 1942-1961: any link with magnet: in its href, decoded if need be
FallbackLink(anchors) ==
    LET got == First(anchors, {i \in 1..Len(anchors) : AnyMagnetLocator(anchors[i])})
        dec == QueryUnescape(got.href).s
    IN  IF got.err \/ got.href = <<>> THEN <<>>
        ELSE IF HasPrefix(got.href, MagnetScheme) THEN got.href
        ELSE IF /\ \/ Contains(got.href, MagnetScheme)
                   \/ Contains(got.href, <<"m","a","g","n","e","t","%","3","A">>)
                /\ Contains(dec, MagnetScheme)
        THEN SubSeq(dec, Index(dec, MagnetScheme), Len(dec))
        ELSE <<>>

\* the keepshare.org link is tried before the direct link
TryGatewayFirst(direct, gateway, fallback) ==
    IF gateway # <<>> THEN gateway
    ELSE IF direct # <<>> THEN direct
    ELSE fallback

\* the returns of lines 1917-1919, 1937-1938 and 1946-1959, in this order
TryInOrder(direct, gateway, fallback) ==
    IF direct # <<>> THEN direct
    ELSE IF gateway # <<>> THEN gateway
    ELSE fallback

Found(magnet) == [magnet |-> magnet, err |-> "nil"]

NotFound(err) == [magnet |-> <<>>, err |-> err]

\* extractMagnetLinkFromURL, for a detail page that loads or does not
extractMagnetLinkFromURL(loaded, anchors) ==
    IF ~loaded THEN NotFound("navigation failed")
    ELSE LET magnet == TryInOrder(DirectLink(anchors), GatewayLink(anchors),
                                  FallbackLink(anchors))
         IN  IF magnet # <<>> THEN Found(magnet)
             ELSE NotFound("magnet link not found")

\* the links of the detail pages
DetailAnchors ==
    { Anchor(<<"G","e","t">>, <<"m","a","g","n","e","t",":","?","a">>),
      Anchor(<<"M","a","g","n","e","t"," ","L","i","n","k">>, <<"/","h","e","l","p">>),
      Anchor(<<"m","a","g","n","e","t"," ","d","o","w","n","l","o","a","d">>, <<"m","a","g","n","e","t",":","?","b">>),
      Anchor(<<"G","e","t">>, <<"/","/","k","e","e","p","s","h","a","r","e",".","o","r","g","/","x","/","m","a","g","n","e","t",":","%","3","F","c">>),
      Anchor(<<"G","e","t">>, <<"/","/","k","e","e","p","s","h","a","r","e",".","o","r","g","/","x","/","m","a","g","n","e","t",":","%","z","z">>),
      Anchor(<<"G","e","t">>, <<"/","/","k","e","e","p","s","h","a","r","e",".","o","r","g","/","?","u","=","m","a","g","n","e","t",":","d">>),
      Anchor(<<"G","e","t">>, <<"/","/","k","e","e","p","s","h","a","r","e",".","o","r","g","/","x","/","m","a","g","n","e","t",":","e","/","m","a","g","n","e","t",":","f">>),
      Anchor(<<"G","e","t">>, <<"/","g","o","?","u","=","m","a","g","n","e","t",":","%","3","F","g">>),
      Anchor(<<"G","e","t">>, <<"/","g","o","?","u","=","m","a","g","n","e","t",":","%","z","z">>),
      Anchor(<<"G","e","t">>, <<"/","g","o","?","u","=","m","a","g","n","e","t","%","3","A","h">>),
      Anchor(<<"M","a","g","n","e","t"," ","D","o","w","n","l","o","a","d">>, <<>>) }

MaxAnchors == 2

DetailPages ==
    UNION {[1..n -> DetailAnchors] : n \in 0..MaxAnchors}

MagnetReturns ==
    /\ call.fn = "extractMagnetLinkFromURL"
    /\ ~call.done
    /\ call' = [call EXCEPT !.out = extractMagnetLinkFromURL(call.in.loaded,
                                                             call.in.anchors),
                            !.done = TRUE]
    /\ OnlyCall

InitMagnet ==
    InitCall({[fn |-> "extractMagnetLinkFromURL",
               in |-> [loaded |-> loaded, anchors |-> anchors],
               out |-> NotFound("pending"), done |-> FALSE] :
                 loaded \in BOOLEAN, anchors \in DetailPages})

SpecMagnet == InitMagnet /\ [][MagnetReturns]_vars

MagnetCallDone == call.fn = "extractMagnetLinkFromURL" /\ call.done

\* C38: the result is that of the first strategy, in the order direct,
\* gateway, fallback, whose result is not empty; a later strategy's result is
\* returned only if every earlier one produced nothing, and an error is
\* returned only if all three produced nothing
C38_FirstNonEmptyWins ==
    MagnetCallDone /\ call.in.loaded =>
        LET direct   == DirectLink(call.in.anchors)
            gateway  == GatewayLink(call.in.anchors)
            fallback == FallbackLink(call.in.anchors)
        IN  /\ direct # <<>> => call.out = Found(direct)
            /\ direct = <<>> /\ gateway # <<>> => call.out = Found(gateway)
            /\ direct = <<>> /\ gateway = <<>> /\ fallback # <<>> =>
                  call.out = Found(fallback)
            /\ call.out.err # "nil" =>
                  direct = <<>> /\ gateway = <<>> /\ fallback = <<>>
            /\ call.out.err = "nil" => call.out.magnet # <<>>

\* a page whose direct, gateway and fallback results are three different
\* links, answered with the direct one
C38_Witness ==
    /\ MagnetCallDone
    /\ call.in.loaded
    /\ LET direct   == DirectLink(call.in.anchors)
           gateway  == GatewayLink(call.in.anchors)
       IN  /\ direct # <<>>
           /\ gateway # <<>>
           /\ gateway # direct
           /\ call.in.anchors[1].href = <<"/","/","k","e","e","p","s","h","a","r","e",".","o","r","g","/","x","/","m","a","g","n","e","t",":","%","3","F","c">>
           /\ call.out = Found(direct)

(***************************************************************************)
(* The fuzzy fallback of runWorker (lines 437-443) with the threshold of   *)
(* line 250, as a function of FUZZY_THRESHOLD, the item and the title      *)
(***************************************************************************)

\* values of FUZZY_THRESHOLD; the empty one stands for an unset variable
ThresholdSettings ==
    { <<>>, <<" ">>, <<"0",".","6","5">>, <<" ","0",".","7"," ">>, <<"0",".","7","8">>, <<"1">>, <<"0">>, <<"1",".","5">>, <<"-","0",".","2">>,
      <<"a","b","c">>, <<"0",",","7","8">>, <<"N","a","N">>, <<"n","a","n">>, <<"I","n","f">>, <<"-","I","n","f","i","n","i","t","y">>, <<".","3">>,
      <<"1",".">>, <<"0",".","3","5">>, <<"+","0",".","3","0">>, <<"0",".","7",".","8">> }

TitleDunes == <<"D","u","n","e","s",".","2","0","2","1",".","1","0","8","0","p">>

TitleDuneReversed == <<"2","0","2","1",".","D","u","n","e",".","1","0","8","0","p">>

TitleDune1984 == <<"D","u","n","e",".","1","9","8","4",".","1","0","8","0","p">>

TitleHeater == <<"H","e","a","t","e","r",".","2","0","1","9">>

TitleAlien == <<"A","l","i","e","n",".","1","9","7","9">>

ScoredTitles ==
    Titles \cup {TitleDunes, TitleDuneReversed, TitleDune1984, TitleHeater, TitleAlien}

\* the configuration of a process started with this FUZZY_THRESHOLD
ConfigWith(setting, useEntityMatching) ==
    [disablePW |-> FALSE, useEntityMatching |-> useEntityMatching,
     threshold |-> getenvFloat(setting, DefaultThreshold),
     twilio |-> Twilio(EnvEmpty, EnvEmpty, EnvEmpty, EnvEmpty)]

\* the filter for one candidate, the LLM (if it is used) not answering
FilterWithSetting(in) ==
    LET config == ConfigWith(in.setting, in.useEntityMatching)
        d      == FilterCandidate(in.itemText, in.title, config, LLMError)
    IN  [threshold |-> config.threshold, matched |-> d.matched, steps |-> d.steps]

FilterReturns ==
    /\ call.fn = "FilterCandidate"
    /\ ~call.done
    /\ call' = [call EXCEPT !.out = FilterWithSetting(call.in), !.done = TRUE]
    /\ OnlyCall

InitThreshold ==
    InitCall({[fn |-> "FilterCandidate",
               in |-> [setting |-> setting, useEntityMatching |-> u,
                       itemText |-> t, title |-> title],
               out |-> [threshold |-> DefaultThreshold, matched |-> FALSE, steps |-> {}],
               done |-> FALSE] :
                 setting \in ThresholdSettings, u \in BOOLEAN,
                 t \in ItemTexts, title \in ScoredTitles})

SpecThreshold == InitThreshold /\ [][FilterReturns]_vars

\* the candidate of a finished call was scored
ReachedFallback ==
    call.fn = "FilterCandidate" /\ call.done /\ "fuzzy" \in call.out.steps

\* the number of the setting, clamped to [0,1]
ClampedTo01(f) ==
    IF f.num < 0 THEN Float(0, 1)
    ELSE IF f.num > f.den THEN Float(1, 1)
    ELSE f

\* C39: a candidate that reaches the fuzzy fallback is accepted exactly if
\* 0.70*overlap + 0.30*contains >= threshold, where the threshold is a number
\* in [0,1]: 0.78 if FUZZY_THRESHOLD is unset or does not parse, else its
\* value clamped to [0,1]
C39_AcceptedIffAtThreshold ==
    ReachedFallback =>
        LET t  == call.out.threshold
            sc == ScoreParts(call.in.itemText, call.in.title)
            p  == ParseFloat(TrimSpace(call.in.setting))
        IN  /\ ~t.nan
            /\ 0 <= t.num /\ t.num <= t.den
            /\ TrimSpace(call.in.setting) = <<>> \/ p.err => t = DefaultThreshold
            /\ TrimSpace(call.in.setting) # <<>> /\ ~p.err /\ ~p.f.nan /\ p.inf = 0 =>
                  t = ClampedTo01(p.f)
            /\ call.out.matched <=> sc.num * t.den >= t.num * 100 * sc.den

(***************************************************************************)
(* extractYear and removeYear (lines 639-653) on the same text             *)
(***************************************************************************)

\* the characters of the texts: digits that make years, a letter, a space
YearChars == {"1", "9", "2", "0", "a", " "}

MaxTextLen == 5

YearTexts == UNION {[1..n -> YearChars] : n \in 0..MaxTextLen}

YearReturns ==
    /\ call.fn = "removeYear"
    /\ ~call.done
    /\ call' = [call EXCEPT !.out = [year |-> extractYear(call.in),
                                     without |-> removeYear(call.in)],
                            !.done = TRUE]
    /\ OnlyCall

InitYear ==
    InitCall({[fn |-> "removeYear", in |-> text,
               out |-> [year |-> <<>>, without |-> <<>>], done |-> FALSE] :
                 text \in YearTexts})

SpecYear == InitYear /\ [][YearReturns]_vars

\* C40: removeYear removes only the year tokens extractYear recognises: on a
\* text in which extractYear finds no year, removeYear returns the text
\* unchanged apart from trimming
C40_RemoveYearKeepsTextsWithoutYear ==
    call.fn = "removeYear" /\ call.done /\ call.out.year = <<>> =>
        call.out.without = TrimSpace(call.in)

\* the item's label with the year removed, lower-cased and trimmed, and the
\* item's year, over the item texts of the model
LabelWithoutYear == [t \in ItemTexts |-> ToLower(TrimSpace(removeYear(t)))]

YearOfLabel == [t \in ItemTexts |-> extractYear(t)]

\* C19: when the extracted film title equals the item's label without its
\* year (lower-cased, trimmed), the candidate is accepted, without the
\* scorer, if the item has no year or the YEAR entity found has the item's
\* year as its text; otherwise the LLM call is all that happens for it: no
\* fuzzy score, no magnet extraction, no insert
C19_TitleAndYear ==
    \A p \in Procs :
        (/\ CalledLLM(p)
         /\ FilmTitleOf(p) # <<>>
         /\ ToLower(TrimSpace(FilmTitleOf(p)[1].Text)) = LabelWithoutYear[ItemTextOf(p)])
        => IF \/ YearOfLabel[ItemTextOf(p)] = <<>>
              \/ /\ YearEntityOf(p) # <<>>
                 /\ YearEntityOf(p)[1].Text = YearOfLabel[ItemTextOf(p)]
           THEN "magnet" \in hist[p].steps /\ "fuzzy" \notin hist[p].steps
           ELSE hist[p].steps = {"llm"}

\* "Dune 2021" against FILM TITLE "Dune", YEAR "1984": rejected after the
\* LLM call alone
C19_Witness ==
    \E p \in Procs :
        /\ CalledLLM(p)
        /\ hist[p].llm = "wrongYear"
        /\ ItemTextOf(p) = Dune2021
        /\ YearEntityOf(p) # <<>>
        /\ hist[p].steps = {"llm"}

\* fuzzyScore >= threshold over the texts and titles of the model
ScoreTable ==
    [t \in ItemTexts, title \in Titles, c \in Configs |->
        ScoreAtLeast(t, title, c.threshold)]

\* the extraction call for the candidate run p handled last returned an error
ExtractionFailed(p) == extractEntities(RawReply(hist[p].title, hist[p].llm)).err

\* C20: with entity matching enabled, a candidate whose extraction call
\* failed, or gave no entity recognised as the film title, is scored and is
\* a match exactly if the score reaches the threshold; after a failed call
\* entitiesJSON is the empty list, and so is the entities column of a row
\* the match adds
C20_FuzzyFallback ==
    \A p \in Procs :
        CalledLLM(p) /\ (ExtractionFailed(p) \/ FilmTitleOf(p) = <<>>) =>
            /\ "fuzzy" \in hist[p].steps
            /\ ("magnet" \in hist[p].steps
                   <=> ScoreTable[ItemTextOf(p), hist[p].title, cfg])
            /\ (ExtractionFailed(p) =>
                   /\ hist[p].json = <<>>
                   /\ (hist[p].last = "new" => hist[p].persisted = <<>>))

\* a blank reply: the candidate matched by its score and its row was stored
\* with an empty entities list
C20_Witness ==
    \E p \in Procs :
        /\ CalledLLM(p)
        /\ hist[p].llm = "blank"
        /\ hist[p].last = "new"
        /\ hist[p].persisted = <<>>

====
